---- MODULE Spec2Model ----
(***************************************************************************)
(* photo-curator: the reversible file-operation core.                      *)
(*                                                                         *)
(* The model follows one run of the Transfer Engine (Mover.execute over a  *)
(* list of FileActions, then ManifestWriter.finalize) on a small           *)
(* filesystem, and then up to two runs of undo() on a manifest document.   *)
(* Every _transfer call and every _undo_one call is one step; the          *)
(* exceptions the filesystem may raise in them are inputs drawn from small *)
(* sets, bounded by MaxFaults.                                             *)
(*                                                                         *)
(* A directory is the sequence of its components (<<>> is the filesystem   *)
(* root), a file name is [base, ctr, ext] where ctr is the sequence of     *)
(* _NNN counters collision resolution has appended to the stem, and a      *)
(* path is [dir, name].  A counter is the sequence of its digits as        *)
(* formatted.                                                              *)
(***************************************************************************)
EXTENDS Naturals, Sequences, FiniteSets

VARIABLES
    fs,               \* the files: path -> [id, size]
    dirs,             \* the directories that exist
    config,           \* CuratorConfig of the run (the fields read after planning)
    actions,          \* the list[FileAction] handed to Mover.execute
    pc,               \* "execute", "finalized", "undo", "idle"
    ai,               \* Mover.execute: index of the action being processed
    sc_i,             \* _execute_one: 0 before the primary, k once k-1 sidecars are done
    dest,             \* _execute_one: the primary's resolved destination
    sidecar_records,  \* _execute_one: the sidecar pairs collected so far
    result,           \* PipelineResult counters
    operations,       \* ManifestWriter.operations
    doc,              \* the manifest document at manifest_path
    faults,           \* number of filesystem faults and outside changes so far
    fs0,              \* history: the files before the run
    tampered,         \* history: the files were changed between run and undo
    raisedAt,         \* history: the actions whose _execute_one raised
    transferLog,      \* history: the transfers that completed, in order
    visited,          \* history: the actions execute has entered, in order
    undo_dry,         \* undo: its dry_run argument
    uk,               \* undo: position in the sequence of _undo_one calls
    undo_records,     \* undo: undo_records
    uerrors,          \* undo: errors
    ustatus,          \* undo: how the latest undo ended ("none" before any)
    undo_doc,         \* the undo-result document of the latest undo, or None
    undo_no,          \* number of undo invocations started
    prev,             \* [status, errors] of the undo before the latest one
    fsAtUndo,         \* [fs, dirs] when the latest undo was invoked
    undoLog,          \* history: the _undo_one calls of the latest undo
    lastStep          \* history: what the latest _undo_one call met and did

vars == <<fs, dirs, config, actions, pc, ai, sc_i, dest, sidecar_records,
          result, operations, doc, faults, fs0, tampered, raisedAt,
          transferLog, visited, undo_dry, uk, undo_records, uerrors, ustatus, undo_doc, undo_no,
          prev, fsAtUndo, undoLog, lastStep>>

runVars == <<config, actions, ai, sc_i, dest, sidecar_records, result,
             operations, doc, fs0, raisedAt, transferLog, visited>>

undoVars == <<undo_dry, uk, undo_records, uerrors, ustatus, undo_doc,
              undo_no, prev, fsAtUndo, undoLog, lastStep>>

(***************************************************************************)
(* Bounds of the model.                                                    *)
(***************************************************************************)
\* Filesystem faults (an exception in a transfer or an undo step) and
\* outside changes between the run and the undo, in one behaviour.
MaxFaults == 1

\* File sizes are drawn from 1..MaxSize.
MaxSize == 2

\* undo() is invoked at most this many times on the manifest.
MaxUndoRuns == 2

\* resolve_duplicate_name tries the counters 1..9999 (range(1, 10000)); the
\* model tries 1..DupLimit, so that a directory can run out of free names.
DupLimit == 2

\* Python's None, where a string or a path is expected.
None == "None"

\* source_size=None in undo's calls of _undo_one for sidecars.
NoSize == 0

(***************************************************************************)
(* Paths.                                                                  *)
(***************************************************************************)
Name(base, ext) == [base |-> base, ctr |-> <<>>, ext |-> ext]

Join(d, n) == [dir |-> d, name |-> n]

\* Path.parent of a directory; the root is its own parent.
Parent(d) == IF d = <<>> THEN d ELSE SubSeq(d, 1, Len(d) - 1)

\* The directory and all its ancestors, the root included.
Ancestors(d) == {SubSeq(d, 1, k) : k \in 0..Len(d)}

Exists(f, p) == p \in DOMAIN f

\* directory.iterdir() yields nothing.
IsEmptyDir(f, ds, d) ==
    /\ \A p \in DOMAIN f : p.dir # d
    /\ \A c \in ds : c = d \/ Parent(c) # d

\* dest.parent.mkdir(parents=True, exist_ok=True)
MkdirParents(ds, d) == ds \cup Ancestors(d)

Remove(f, p) == [q \in DOMAIN f \ {p} |-> f[q]]

Put(f, p, c) == [q \in DOMAIN f \cup {p} |-> IF q = p THEN c ELSE f[q]]

(***************************************************************************)
(* The run configuration and the files of the model.                       *)
(***************************************************************************)
SourceRoot == <<"d", "in">>
CommonRoot == <<"d">>
DestinationRoot == <<"d", "arch">>
DiscardRoot == <<"d", "disc">>

MediaA == Join(SourceRoot, Name("x", "jpg"))
SidecarXmp == Join(SourceRoot, Name("x", "xmp"))
SidecarAae == Join(SourceRoot, Name("x", "aae"))
MediaB == Join(DestinationRoot \o <<"NoDate">>, Name("x", "jpg"))
SidecarB == Join(DestinationRoot \o <<"NoDate">>, Name("x", "xmp"))

FileRecord(path, size, year, month) ==
    [path |-> path, size |-> size, year |-> year, month |-> month]

(***************************************************************************)
(* Resolver.resolve for one MatchResult.                                   *)
(***************************************************************************)
\* A variant of _target_dir that looks at the year only.
_target_dir_year_only(cfg, record) ==
    IF record.year # None
    THEN cfg.destination \o <<record.year, record.month>>
    ELSE cfg.destination \o <<"NoDate">>

\* bool(value) of a year or month: None and the empty string are false.
Truthy(value) == value # None /\ value # ""

_target_dir(cfg, record) ==
    IF Truthy(record.year) /\ Truthy(record.month)
    THEN cfg.destination \o <<record.year, record.month>>
    ELSE cfg.destination \o <<"NoDate">>

\* A variant of the loop body that tests for the in-place skip first.
resolve_one_skip_first(cfg, mr) ==
    LET target_path == Join(_target_dir(cfg, mr.source), mr.source.path.name)
    IN  IF target_path = mr.source.path
        THEN [source |-> mr.source, action |-> "skip",
              destination_path |-> target_path, sidecars |-> <<>>]
        ELSE IF mr.is_duplicate
        THEN [source |-> mr.source, action |-> "discard_source",
              destination_path |-> Join(cfg.discard, mr.source.path.name),
              sidecars |-> <<>>]
        ELSE [source |-> mr.source,
              action |-> IF mr.source.year = None THEN "no_date" ELSE "store",
              destination_path |-> target_path, sidecars |-> <<>>]

resolve_one(cfg, mr) ==
    IF mr.is_duplicate
    THEN [source |-> mr.source, action |-> "discard_source",
          destination_path |-> Join(cfg.discard, mr.source.path.name),
          sidecars |-> <<>>]
    ELSE LET target_path ==
                 Join(_target_dir(cfg, mr.source), mr.source.path.name)
         IN  [source |-> mr.source,
              action |-> IF target_path = mr.source.path THEN "skip"
                         ELSE IF mr.source.year = None THEN "no_date"
                         ELSE "store",
              destination_path |-> target_path,
              sidecars |-> <<>>]

\* A variant that emits nothing for a file already in place.
resolve_without_skips(cfg, match_results) ==
    SelectSeq([i \in 1..Len(match_results) |->
                  resolve_one(cfg, match_results[i])],
              LAMBDA a : a.action # "skip")

\* Resolver.resolve: one FileAction per MatchResult, in order.
resolve(cfg, match_results) ==
    [i \in 1..Len(match_results) |-> resolve_one(cfg, match_results[i])]

(***************************************************************************)
(* matching/: the index is the list of its (key, path) entries in          *)
(* insertion order, so that the paths stored under a key keep their order. *)
(***************************************************************************)
\* str.lower() on the strings of the model.
Lower(str) ==
    IF str = "X" THEN "x" ELSE IF str = "JPG" THEN "jpg" ELSE str

\* path.name.lower()
LowerName(n) == [n EXCEPT !.base = Lower(@), !.ext = Lower(@)]

\* A path lies in the tree under root.
Under(p, root) ==
    Len(p.dir) >= Len(root) /\ SubSeq(p.dir, 1, Len(root)) = root

\* The paths of a set as a list, in some order.
RECURSIVE ListOf(_)
ListOf(ps) ==
    IF ps = {} THEN <<>>
    ELSE LET p == CHOOSE q \in ps : TRUE IN <<p>> \o ListOf(ps \ {p})

\* walk_destination: the (path, size) of the files under the destination.
walk_destination(f, destination) ==
    LET ps == ListOf({p \in DOMAIN f : Under(p, destination)})
    IN  [i \in 1..Len(ps) |-> [path |-> ps[i], size |-> f[ps[i]].size]]

\* A variant of KeyOf that keeps the case of the name.
KeyOf_case_kept(strategy, f, path, size) ==
    IF strategy = "filename-size" THEN <<path.name, size>>
    ELSE <<f[path].id>>

\* The key a strategy files a path under: (lowercased name, size), or the
\* SHA256 digest of the content, which stands for the content itself.
KeyOf(strategy, f, path, size) ==
    IF strategy = "filename-size" THEN <<LowerName(path.name), size>>
    ELSE <<f[path].id>>

\* A variant of build_index that files every file of the walk, the files
\* that cannot be read under the digest of the bytes they hold.
build_index_hash_all(strategy, f, destination, unreadable) ==
    LET files == walk_destination(f, destination)
    IN  [i \in 1..Len(files) |->
            [key |-> KeyOf(strategy, f, files[i].path, files[i].size),
             path |-> files[i].path]]

\* build_index of both strategies.  filename-size files every file of the
\* walk; content-hash leaves out a file when sha256_file raises OSError.
build_index(strategy, f, destination, unreadable) ==
    LET files == walk_destination(f, destination)
        filed == SelectSeq(files,
                     LAMBDA e : strategy = "filename-size"
                                \/ e.path \notin unreadable)
    IN  [i \in 1..Len(filed) |->
            [key |-> KeyOf(strategy, f, filed[i].path, filed[i].size),
             path |-> filed[i].path]]

\* dest_index.get(key, []): the paths stored under the key, in order.
RECURSIVE Matches(_, _)
Matches(index, key) ==
    IF index = <<>> THEN <<>>
    ELSE (IF Head(index).key = key THEN <<Head(index).path>> ELSE <<>>)
         \o Matches(Tail(index), key)

\* Stands for matched_destination=None.
NoPath == Join(<<>>, Name("None", ""))

MatchResult(source, matched_destination, is_duplicate) ==
    [source |-> source, matched_destination |-> matched_destination,
     is_duplicate |-> is_duplicate]

\* A variant of match_all that never adds a key to the index.
RECURSIVE match_all_never_insert(_, _, _, _, _)
match_all_never_insert(strategy, f, source_files, dest_index, unreadable) ==
    IF source_files = <<>> THEN <<>>
    ELSE LET record == Head(source_files)
             rest   == Tail(source_files)
         IN  IF strategy = "content-hash" /\ record.path \in unreadable
             THEN <<MatchResult(record, NoPath, FALSE)>>
                  \o match_all_never_insert(strategy, f, rest, dest_index,
                                            unreadable)
             ELSE LET key == KeyOf(strategy, f, record.path, record.size)
                      matches == Matches(dest_index, key)
                  IN  (IF matches # <<>>
                       THEN <<MatchResult(record, matches[1], TRUE)>>
                       ELSE <<MatchResult(record, NoPath, FALSE)>>)
                      \o match_all_never_insert(strategy, f, rest,
                                                dest_index, unreadable)

\* A variant of match_all that adds the key of a new file to the index
\* under both strategies.
RECURSIVE match_all_always_insert(_, _, _, _, _)
match_all_always_insert(strategy, f, source_files, dest_index, unreadable) ==
    IF source_files = <<>> THEN <<>>
    ELSE LET record == Head(source_files)
             rest   == Tail(source_files)
         IN  IF strategy = "content-hash" /\ record.path \in unreadable
             THEN <<MatchResult(record, NoPath, FALSE)>>
                  \o match_all_always_insert(strategy, f, rest, dest_index,
                                             unreadable)
             ELSE LET key == KeyOf(strategy, f, record.path, record.size)
                      matches == Matches(dest_index, key)
                  IN  IF matches # <<>>
                      THEN <<MatchResult(record, matches[1], TRUE)>>
                           \o match_all_always_insert(strategy, f, rest,
                                                      dest_index, unreadable)
                      ELSE <<MatchResult(record, NoPath, FALSE)>>
                           \o match_all_always_insert(
                                  strategy, f, rest,
                                  Append(dest_index,
                                         [key |-> key, path |-> record.path]),
                                  unreadable)

\* match_all of both strategies.  filename-size adds the key of a novel
\* file to the index; content-hash reports a file it cannot read as novel
\* and adds nothing.
RECURSIVE match_all(_, _, _, _, _)
match_all(strategy, f, source_files, dest_index, unreadable) ==
    IF source_files = <<>> THEN <<>>
    ELSE LET record == Head(source_files)
             rest   == Tail(source_files)
         IN  IF strategy = "content-hash" /\ record.path \in unreadable
             THEN <<MatchResult(record, NoPath, FALSE)>>
                  \o match_all(strategy, f, rest, dest_index, unreadable)
             ELSE LET key == KeyOf(strategy, f, record.path, record.size)
                      matches == Matches(dest_index, key)
                  IN  IF matches # <<>>
                      THEN <<MatchResult(record, matches[1], TRUE)>>
                           \o match_all(strategy, f, rest, dest_index,
                                        unreadable)
                      ELSE <<MatchResult(record, NoPath, FALSE)>>
                           \o match_all(
                                  strategy, f, rest,
                                  IF strategy = "filename-size"
                                  THEN Append(dest_index,
                                           [key |-> key, path |-> record.path])
                                  ELSE dest_index,
                                  unreadable)

(***************************************************************************)
(* mover.py                                                                *)
(***************************************************************************)
\* The decimal digits of n.
RECURSIVE Digits(_)
Digits(n) == IF n < 10 THEN <<n>> ELSE Digits(n \div 10) \o <<n % 10>>

\* f"{counter:03d}": the digits, zero-padded on the left to width 3.
Format03d(counter) ==
    LET d == Digits(counter)
    IN  IF Len(d) >= 3 THEN d ELSE [i \in 1..(3 - Len(d)) |-> 0] \o d

\* parent / f"{stem}_{counter:03d}{suffix}"
WithCounter(target, counter) ==
    Join(target.dir, [target.name EXCEPT !.ctr = Append(@, Format03d(counter))])

\* Stands for the RuntimeError raised when every counter is taken.
TooManyDuplicates == Join(<<>>, Name("RuntimeError", ""))

\* A variant whose counters start at 0 (range(0, ...)).
resolve_duplicate_name_from_zero(f, target) ==
    IF ~Exists(f, target) THEN target
    ELSE IF \E c \in 0..DupLimit : ~Exists(f, WithCounter(target, c))
    THEN WithCounter(target,
             CHOOSE c \in 0..DupLimit :
                 /\ ~Exists(f, WithCounter(target, c))
                 /\ \A b \in 0..(c - 1) : Exists(f, WithCounter(target, b)))
    ELSE TooManyDuplicates

\* A variant that returns the target whether it exists or not.
resolve_duplicate_name_as_given(f, target) == target

resolve_duplicate_name(f, target) ==
    IF ~Exists(f, target) THEN target
    ELSE IF \E c \in 1..DupLimit : ~Exists(f, WithCounter(target, c))
    THEN WithCounter(target,
             CHOOSE c \in 1..DupLimit :
                 /\ ~Exists(f, WithCounter(target, c))
                 /\ \A b \in 1..(c - 1) : Exists(f, WithCounter(target, b)))
    ELSE TooManyDuplicates

\* The faults a transfer can meet: "mkdir" raises in dest.parent.mkdir,
\* "io" raises in shutil before anything is written, "partial" raises after
\* the destination was written (copy2: in copystat; move across
\* filesystems: in the unlink of the source).
TransferFaults == {"mkdir", "io", "partial"}

\* A variant that creates the destination directory before it looks at
\* dry_run.
_transfer_mkdir_first(f, ds, cfg, src, dst, fault) ==
    IF fault = "mkdir"
    THEN [fs |-> f, dirs |-> ds, raised |-> TRUE, wrote |-> FALSE]
    ELSE IF cfg.dry_run
    THEN [fs |-> f, dirs |-> MkdirParents(ds, dst.dir),
          raised |-> FALSE, wrote |-> FALSE]
    ELSE IF fault = "io" \/ ~Exists(f, src)
    THEN [fs |-> f, dirs |-> MkdirParents(ds, dst.dir),
          raised |-> TRUE, wrote |-> FALSE]
    ELSE IF fault = "partial"
    THEN [fs |-> Put(f, dst, f[src]), dirs |-> MkdirParents(ds, dst.dir),
          raised |-> TRUE, wrote |-> TRUE]
    ELSE IF cfg.mode = "move"
    THEN [fs |-> Put(Remove(f, src), dst, f[src]),
          dirs |-> MkdirParents(ds, dst.dir),
          raised |-> FALSE, wrote |-> TRUE]
    ELSE [fs |-> Put(f, dst, f[src]), dirs |-> MkdirParents(ds, dst.dir),
          raised |-> FALSE, wrote |-> TRUE]

\* A variant that copies in move mode too, leaving the source in place.
_transfer_always_copies(f, ds, cfg, src, dst, fault) ==
    IF cfg.dry_run
    THEN [fs |-> f, dirs |-> ds, raised |-> FALSE, wrote |-> FALSE]
    ELSE IF fault = "mkdir"
    THEN [fs |-> f, dirs |-> ds, raised |-> TRUE, wrote |-> FALSE]
    ELSE IF fault = "io" \/ ~Exists(f, src)
    THEN [fs |-> f, dirs |-> MkdirParents(ds, dst.dir),
          raised |-> TRUE, wrote |-> FALSE]
    ELSE [fs |-> Put(f, dst, f[src]), dirs |-> MkdirParents(ds, dst.dir),
          raised |-> fault = "partial", wrote |-> TRUE]

\* _transfer(src, dest): the filesystem afterwards and whether it raised.
_transfer(f, ds, cfg, src, dst, fault) ==
    IF cfg.dry_run
    THEN [fs |-> f, dirs |-> ds, raised |-> FALSE, wrote |-> FALSE]
    ELSE IF fault = "mkdir"
    THEN [fs |-> f, dirs |-> ds, raised |-> TRUE, wrote |-> FALSE]
    ELSE IF fault = "io" \/ ~Exists(f, src)
    THEN [fs |-> f, dirs |-> MkdirParents(ds, dst.dir),
          raised |-> TRUE, wrote |-> FALSE]
    ELSE IF fault = "partial"
    THEN [fs |-> Put(f, dst, f[src]), dirs |-> MkdirParents(ds, dst.dir),
          raised |-> TRUE, wrote |-> TRUE]
    ELSE IF cfg.mode = "move"
    THEN [fs |-> Put(Remove(f, src), dst, f[src]),
          dirs |-> MkdirParents(ds, dst.dir),
          raised |-> FALSE, wrote |-> TRUE]
    ELSE [fs |-> Put(f, dst, f[src]), dirs |-> MkdirParents(ds, dst.dir),
          raised |-> FALSE, wrote |-> TRUE]

OperationRecord(fa, dst, scs) ==
    [action |-> fa.action, source |-> fa.source.path, destination |-> dst,
     source_size |-> fa.source.size, sidecars |-> scs]

\* A variant that records the planned target instead of the resolved one.
_record_operation_planned(ops, fa, dst, scs) ==
    Append(ops, OperationRecord(fa, fa.destination_path, scs))

\* _record_operation: ManifestWriter.record appends.
_record_operation(ops, fa, dst, scs) == Append(ops, OperationRecord(fa, dst, scs))

\* A variant that sends every sidecar to the discard root.
SidecarDir_discard_root(cfg, fa, dst) == cfg.discard

\* The directory a sidecar of the action goes to.
SidecarDir(cfg, fa, dst) ==
    IF fa.action = "discard_source" THEN cfg.discard ELSE dst.dir

\* A variant that counts a NO_DATE action as stored.
CountActionNoDateAsStored(res, fa) ==
    IF fa.action = "discard_source"
    THEN [res EXCEPT !.files_discarded = @ + 1]
    ELSE [res EXCEPT !.files_stored = @ + 1]

\* A variant that counts a NO_DATE action as stored as well.
CountAction_no_date_also_stored(res, fa) ==
    IF fa.action = "no_date"
    THEN [res EXCEPT !.files_no_date = @ + 1, !.files_stored = @ + 1]
    ELSE IF fa.action = "discard_source"
    THEN [res EXCEPT !.files_discarded = @ + 1]
    ELSE [res EXCEPT !.files_stored = @ + 1]

CountAction(res, fa) ==
    IF fa.action = "no_date"
    THEN [res EXCEPT !.files_no_date = @ + 1]
    ELSE IF fa.action = "discard_source"
    THEN [res EXCEPT !.files_discarded = @ + 1]
    ELSE [res EXCEPT !.files_stored = @ + 1]

\* A variant that counts a failure once where it is raised and once more in
\* execute.
CatchErrorTwice(res) == [res EXCEPT !.errors = @ + 2]

\* except Exception in execute: count the error, go on with the next action.
CatchError(res) == [res EXCEPT !.errors = @ + 1]

InExecute == pc = "execute" /\ ai <= Len(actions)

FaultChoice(fault) ==
    /\ fault \in {"none"} \cup TransferFaults
    /\ fault # "none" => faults < MaxFaults /\ ~config.dry_run
    /\ faults' = IF fault = "none" THEN faults ELSE faults + 1

\* A variant of the SKIP branch that counts the file as stored.
ExecuteSkip_as_stored ==
    /\ InExecute /\ sc_i = 0
    /\ actions[ai].action = "skip"
    /\ result' = [result EXCEPT !.files_stored = @ + 1]
    /\ ai' = ai + 1
    /\ visited' = Append(visited, ai)
    /\ UNCHANGED <<fs, dirs, config, actions, pc, sc_i, dest, sidecar_records,
                   operations, doc, faults, fs0, tampered, raisedAt,
                   transferLog>>
    /\ UNCHANGED undoVars

\* _execute_one on a SKIP action.
ExecuteSkip ==
    /\ InExecute /\ sc_i = 0
    /\ actions[ai].action = "skip"
    /\ result' = [result EXCEPT !.files_skipped = @ + 1]
    /\ ai' = ai + 1
    /\ visited' = Append(visited, ai)
    /\ UNCHANGED <<fs, dirs, config, actions, pc, sc_i, dest, sidecar_records,
                   operations, doc, faults, fs0, tampered, raisedAt,
                   transferLog>>
    /\ UNCHANGED undoVars

\* _execute_one up to and including the transfer of the primary file.
ExecutePrimary(fault) ==
    /\ InExecute /\ sc_i = 0
    /\ actions[ai].action # "skip"
    /\ FaultChoice(fault)
    /\ visited' = Append(visited, ai)
    /\ LET fa == actions[ai]
           d  == resolve_duplicate_name(fs, fa.destination_path)
           t  == _transfer(fs, dirs, config, fa.source.path, d, fault)
       IN  IF d = TooManyDuplicates
           THEN /\ result' = CatchError(result)
                /\ raisedAt' = Append(raisedAt, ai)
                /\ ai' = ai + 1
                /\ UNCHANGED <<fs, dirs, sc_i, dest, transferLog>>
           ELSE /\ fs' = t.fs
                /\ dirs' = t.dirs
                /\ transferLog' =
                       IF ~t.raised /\ t.wrote
                       THEN Append(transferLog,
                                [source |-> fa.source.path, destination |-> d])
                       ELSE transferLog
                /\ IF t.raised
                   THEN /\ result' = CatchError(result)
                        /\ raisedAt' = Append(raisedAt, ai)
                        /\ ai' = ai + 1
                        /\ UNCHANGED <<sc_i, dest>>
                   ELSE /\ sc_i' = 1
                        /\ dest' = d
                        /\ UNCHANGED <<result, ai, raisedAt>>
    /\ sidecar_records' = <<>>
    /\ UNCHANGED <<config, actions, pc, operations, doc, fs0, tampered>>
    /\ UNCHANGED undoVars

\* _execute_one: one turn of the loop over fa.sidecars.
ExecuteSidecar(fault) ==
    /\ InExecute /\ sc_i >= 1 /\ sc_i <= Len(actions[ai].sidecars)
    /\ FaultChoice(fault)
    /\ LET fa == actions[ai]
           sc == fa.sidecars[sc_i]
           d  == resolve_duplicate_name(
                     fs, Join(SidecarDir(config, fa, dest), sc.path.name))
           t  == _transfer(fs, dirs, config, sc.path, d, fault)
       IN  IF d = TooManyDuplicates
           THEN /\ result' = CatchError(result)
                /\ raisedAt' = Append(raisedAt, ai)
                /\ ai' = ai + 1
                /\ sc_i' = 0
                /\ sidecar_records' = <<>>
                /\ UNCHANGED <<fs, dirs, transferLog>>
           ELSE /\ fs' = t.fs
                /\ dirs' = t.dirs
                /\ transferLog' =
                       IF ~t.raised /\ t.wrote
                       THEN Append(transferLog,
                                [source |-> sc.path, destination |-> d])
                       ELSE transferLog
                /\ IF t.raised
                   THEN /\ result' = CatchError(result)
                        /\ raisedAt' = Append(raisedAt, ai)
                        /\ ai' = ai + 1
                        /\ sc_i' = 0
                        /\ sidecar_records' = <<>>
                   ELSE /\ sc_i' = sc_i + 1
                        /\ sidecar_records' =
                               Append(sidecar_records,
                                   [source |-> sc.path, destination |-> d])
                        /\ UNCHANGED <<result, ai, raisedAt>>
    /\ UNCHANGED <<config, actions, pc, dest, operations, doc, fs0,
                   tampered, visited>>
    /\ UNCHANGED undoVars

\* _execute_one after the last sidecar: record the operation, count it.
ExecuteRecord ==
    /\ InExecute /\ sc_i > Len(actions[ai].sidecars)
    /\ operations' = _record_operation(operations, actions[ai], dest,
                                       sidecar_records)
    /\ result' = CountAction(result, actions[ai])
    /\ ai' = ai + 1
    /\ sc_i' = 0
    /\ sidecar_records' = <<>>
    /\ UNCHANGED <<fs, dirs, config, actions, pc, dest, doc, faults, fs0,
                   tampered, raisedAt, transferLog, visited>>
    /\ UNCHANGED undoVars

(***************************************************************************)
(* manifest.py                                                             *)
(***************************************************************************)
ManifestKeys == {"schema_version", "operations", "config"}

\* A variant that writes the operations latest first.
finalize_latest_first(run_id, cfg, ops, res) ==
    [exists |-> TRUE, parses |-> TRUE, keys |-> ManifestKeys,
     config_mode |-> TRUE, run_id |-> run_id, mode |-> cfg.mode,
     dry_run |-> cfg.dry_run, destination |-> cfg.destination,
     operations |-> [i \in 1..Len(ops) |-> ops[Len(ops) + 1 - i]],
     summary |-> res]

\* ManifestWriter.finalize: the document it writes.
finalize(run_id, cfg, ops, res) ==
    [exists |-> TRUE, parses |-> TRUE, keys |-> ManifestKeys,
     config_mode |-> TRUE, run_id |-> run_id, mode |-> cfg.mode,
     dry_run |-> cfg.dry_run, destination |-> cfg.destination,
     operations |-> ops, summary |-> res]

\* No document: before finalize, and at a manifest_path with no file.
NoDocument ==
    [exists |-> FALSE, parses |-> FALSE, keys |-> {}, config_mode |-> FALSE,
     run_id |-> None, mode |-> None, dry_run |-> FALSE, destination |-> <<>>,
     operations |-> <<>>, summary |-> <<>>]

\* Pipeline.run after execute has returned.
Finalize ==
    /\ pc = "execute" /\ ai > Len(actions)
    /\ doc' = finalize("run", config, operations, result)
    /\ pc' = "finalized"
    /\ UNCHANGED <<fs, dirs, config, actions, ai, sc_i, dest, sidecar_records,
                   result, operations, faults, fs0, tampered, raisedAt,
                   transferLog, visited>>
    /\ UNCHANGED undoVars

(***************************************************************************)
(* Between the run and the undo the outside world may act: someone deletes *)
(* a file or rewrites it to another size, or the manifest file is deleted, *)
(* corrupted or loses fields.                                              *)
(***************************************************************************)
TamperFile ==
    /\ pc = "finalized" /\ undo_no = 0
    /\ faults < MaxFaults
    /\ \E p \in DOMAIN fs :
          \/ fs' = Remove(fs, p)
          \/ \E s \in (1..MaxSize) \ {fs[p].size} :
                fs' = [fs EXCEPT ![p] = [id |-> "rewritten", size |-> s]]
    /\ faults' = faults + 1
    /\ tampered' = TRUE
    /\ UNCHANGED <<dirs, pc>>
    /\ UNCHANGED runVars
    /\ UNCHANGED undoVars

\* After a dry-run a file comes to lie at a destination the manifest
\* records, as when the real run follows the dry-run.
FileAppears ==
    /\ pc = "finalized" /\ undo_no = 0
    /\ faults < MaxFaults
    /\ doc.dry_run
    /\ \E k \in 1..Len(doc.operations) :
          LET p == doc.operations[k].destination
          IN  /\ ~Exists(fs, p)
              /\ fs' = Put(fs, p, [id |-> "later", size |-> 1])
              /\ dirs' = MkdirParents(dirs, p.dir)
    /\ faults' = faults + 1
    /\ tampered' = TRUE
    /\ UNCHANGED pc
    /\ UNCHANGED runVars
    /\ UNCHANGED undoVars

\* What a damaged manifest file may hold: no file, a file that is not
\* JSON, or a document lacking some of the fields.
Damaged(d) ==
    {NoDocument, [d EXCEPT !.parses = FALSE], [d EXCEPT !.config_mode = FALSE]}
    \cup {[d EXCEPT !.keys = ManifestKeys \ {k}] : k \in ManifestKeys}

DamageManifest ==
    /\ pc = "finalized" /\ undo_no = 0
    /\ faults < MaxFaults
    /\ doc' \in Damaged(doc)
    /\ faults' = faults + 1
    /\ UNCHANGED <<fs, dirs, pc, tampered>>
    /\ UNCHANGED <<config, actions, ai, sc_i, dest, sidecar_records, result,
                   operations, fs0, raisedAt, transferLog, visited>>
    /\ UNCHANGED undoVars

(***************************************************************************)
(* undo.py                                                                 *)
(***************************************************************************)
\* A variant of _load_manifest that does not look for schema_version.
_load_manifest_no_schema(d) ==
    IF ~d.exists THEN "manifest not found"
    ELSE IF ~d.parses THEN "cannot read manifest"
    ELSE IF "operations" \notin d.keys THEN "missing operations"
    ELSE IF "config" \notin d.keys \/ ~d.config_mode THEN "missing config.mode"
    ELSE "ok"

\* _load_manifest: "ok", or the SystemExit it raises.
_load_manifest(d) ==
    IF ~d.exists THEN "manifest not found"
    ELSE IF ~d.parses THEN "cannot read manifest"
    ELSE IF "schema_version" \notin d.keys THEN "missing schema_version"
    ELSE IF "operations" \notin d.keys THEN "missing operations"
    ELSE IF "config" \notin d.keys \/ ~d.config_mode THEN "missing config.mode"
    ELSE "ok"

Reverse(s) == [i \in 1..Len(s) |-> s[Len(s) + 1 - i]]

\* A variant of CallsOf that leaves the sidecars out.
CallsOf_primary_only(op) ==
    <<[source |-> op.source, destination |-> op.destination,
       source_size |-> op.source_size]>>

\* The _undo_one calls undo makes for one operation: the sidecars in
\* reverse, with no expected size, then the main file.
CallsOf(op) ==
    [i \in 1..Len(op.sidecars) |->
        [source |-> Reverse(op.sidecars)[i].source,
         destination |-> Reverse(op.sidecars)[i].destination,
         source_size |-> NoSize]]
    \o <<[source |-> op.source, destination |-> op.destination,
          source_size |-> op.source_size]>>

RECURSIVE CallsOfAll(_)
CallsOfAll(ops) ==
    IF ops = <<>> THEN <<>> ELSE CallsOf(Head(ops)) \o CallsOfAll(Tail(ops))

\* A variant that walks the operations in the order they were recorded.
UndoCallsForward(ops) == CallsOfAll(ops)

\* The _undo_one calls of undo's loops over the operations, in order.
UndoCalls(ops) == CallsOfAll(Reverse(ops))

\* _remove_empty_parents; lim is the number of rmdir calls that succeed
\* before one raises OSError (which ends the loop silently).
RECURSIVE _remove_empty_parents(_, _, _, _)
_remove_empty_parents(f, ds, directory, lim) ==
    IF directory = Parent(directory) \/ directory \notin ds THEN ds
    ELSE IF ~IsEmptyDir(f, ds, directory) THEN ds
    ELSE IF lim = 0 THEN ds
    ELSE _remove_empty_parents(f, ds \ {directory}, Parent(directory), lim - 1)

\* The faults an undo step can meet.  "mkdir", "io" and "partial" raise out
\* of _undo_one ("partial": the file reached the source path, the unlink of
\* the destination failed); "prune" is an OSError in _remove_empty_parents
\* at the first rmdir.
UndoFaults == {"mkdir", "io", "partial", "prune"}

PruneLimit(fault, directory) ==
    IF fault = "prune" THEN 0 ELSE Len(directory) + 1

\* A variant without the size check.
SizeMismatchIgnored(f, call) == FALSE

\* dest_path.stat().st_size != source_size, for a call that has a size.
SizeMismatch(f, call) ==
    call.source_size # NoSize /\ f[call.destination].size # call.source_size

\* Whether _undo_one gets as far as changing the filesystem.
UndoActs(f, call, dry) ==
    /\ Exists(f, call.destination)
    /\ ~SizeMismatch(f, call)
    /\ ~dry

Outcome(f, ds, ok, raised, met) ==
    [fs |-> f, dirs |-> ds, ok |-> ok, raised |-> raised, met |-> met]

\* A variant that unlinks the source path instead of the copy.
DeleteSource(f, ds, call, fault) ==
    IF fault \in {"mkdir", "io", "partial"}
    THEN Outcome(f, ds, FALSE, TRUE, "raised")
    ELSE Outcome(Remove(f, call.source),
                 _remove_empty_parents(
                     Remove(f, call.source), ds, call.destination.dir,
                     PruneLimit(fault, call.destination.dir)),
                 TRUE, FALSE, "delete")

\* _undo_one in copy mode: delete the copy, prune its directories.
DeleteCopy(f, ds, call, fault) ==
    IF fault \in {"mkdir", "io", "partial"}
    THEN Outcome(f, ds, FALSE, TRUE, "raised")
    ELSE Outcome(Remove(f, call.destination),
                 _remove_empty_parents(
                     Remove(f, call.destination), ds, call.destination.dir,
                     PruneLimit(fault, call.destination.dir)),
                 TRUE, FALSE, "delete")

\* _undo_one in move mode: move the file back, prune the directories it
\* left.
MoveBack(f, ds, call, fault) ==
    IF fault = "mkdir"
    THEN Outcome(f, ds, FALSE, TRUE, "raised")
    ELSE IF fault = "io"
    THEN Outcome(f, MkdirParents(ds, call.source.dir), FALSE, TRUE, "raised")
    ELSE IF fault = "partial"
    THEN Outcome(Put(f, call.source, f[call.destination]),
                 MkdirParents(ds, call.source.dir), FALSE, TRUE, "raised")
    ELSE LET g == Put(Remove(f, call.destination), call.source,
                      f[call.destination])
         IN  Outcome(g,
                     _remove_empty_parents(
                         g, MkdirParents(ds, call.source.dir),
                         call.destination.dir,
                         PruneLimit(fault, call.destination.dir)),
                     TRUE, FALSE, "move_back")

\* A variant of _undo_one that acts whatever dry_run says.
_undo_one_for_real(f, ds, call, mode, dry, fault) ==
    IF ~Exists(f, call.destination) THEN Outcome(f, ds, TRUE, FALSE, "gone")
    ELSE IF SizeMismatch(f, call)
    THEN Outcome(f, ds, FALSE, FALSE, "mismatch")
    ELSE IF mode = "copy" THEN DeleteCopy(f, ds, call, fault)
    ELSE MoveBack(f, ds, call, fault)

\* _undo_one: the filesystem afterwards, the value returned, whether it
\* raised, and what it met.
_undo_one(f, ds, call, mode, dry, fault) ==
    IF ~Exists(f, call.destination) THEN Outcome(f, ds, TRUE, FALSE, "gone")
    ELSE IF SizeMismatch(f, call)
    THEN Outcome(f, ds, FALSE, FALSE, "mismatch")
    ELSE IF dry THEN Outcome(f, ds, TRUE, FALSE, "dry")
    ELSE IF mode = "copy" THEN DeleteCopy(f, ds, call, fault)
    ELSE MoveBack(f, ds, call, fault)

\* The manifest_path undo is called with.
ManifestPath == Join(<<"d", "logs">>, Name("run", "json"))

\* No undo-result document was written.
NoUndoDocument ==
    [type |-> None, original_manifest |-> NoPath, original_run_id |-> None,
     mode |-> None, operations_undone |-> <<>>, errors |-> 0]

\* _write_undo_manifest: the undo-result document.
_write_undo_manifest(d, records, errors) ==
    [type |-> "undo", original_manifest |-> ManifestPath,
     original_run_id |-> d.run_id, mode |-> d.mode,
     operations_undone |-> records, errors |-> errors]

\* A variant of undo's start that does not look at the manifest's dry_run.
StartUndo_any_manifest(dry) ==
    /\ pc \in {"finalized", "idle"}
    /\ undo_no < MaxUndoRuns
    /\ undo_dry' = dry
    /\ undo_no' = undo_no + 1
    /\ prev' = [status |-> ustatus, errors |-> uerrors, dry |-> undo_dry]
    /\ fsAtUndo' = [fs |-> fs, dirs |-> dirs]
    /\ uk' = 1
    /\ undo_records' = <<>>
    /\ uerrors' = 0
    /\ undo_doc' = NoUndoDocument
    /\ undoLog' = <<>>
    /\ lastStep' = "none"
    /\ IF _load_manifest(doc) # "ok"
       THEN pc' = "idle" /\ ustatus' = "config_error"
       ELSE IF doc.operations = <<>>
       THEN pc' = "idle" /\ ustatus' = "ok"
       ELSE pc' = "undo" /\ ustatus' = "running"
    /\ UNCHANGED <<fs, dirs, faults, tampered>>
    /\ UNCHANGED runVars

\* undo() up to its loop: load and validate the manifest, return early for
\* a dry-run manifest or one without operations.
StartUndo(dry) ==
    /\ pc \in {"finalized", "idle"}
    /\ undo_no < MaxUndoRuns
    /\ undo_dry' = dry
    /\ undo_no' = undo_no + 1
    /\ prev' = [status |-> ustatus, errors |-> uerrors, dry |-> undo_dry]
    /\ fsAtUndo' = [fs |-> fs, dirs |-> dirs]
    /\ uk' = 1
    /\ undo_records' = <<>>
    /\ uerrors' = 0
    /\ undo_doc' = NoUndoDocument
    /\ undoLog' = <<>>
    /\ lastStep' = "none"
    /\ IF _load_manifest(doc) # "ok"
       THEN pc' = "idle" /\ ustatus' = "config_error"
       ELSE IF doc.dry_run \/ doc.operations = <<>>
       THEN pc' = "idle" /\ ustatus' = "ok"
       ELSE pc' = "undo" /\ ustatus' = "running"
    /\ UNCHANGED <<fs, dirs, faults, tampered>>
    /\ UNCHANGED runVars

\* One turn of undo's loops: one _undo_one call and its bookkeeping.
UndoStep(fault) ==
    /\ pc = "undo" /\ uk <= Len(UndoCalls(doc.operations))
    /\ fault \in {"none"} \cup UndoFaults
    /\ LET call == UndoCalls(doc.operations)[uk]
           r    == _undo_one(fs, dirs, call, doc.mode, undo_dry, fault)
       IN  /\ fault # "none" =>
                  faults < MaxFaults /\ UndoActs(fs, call, undo_dry)
           /\ fs' = r.fs
           /\ dirs' = r.dirs
           /\ lastStep' = r.met
           /\ undoLog' = Append(undoLog,
                  [source |-> call.source, destination |-> call.destination])
           /\ IF r.raised
              THEN /\ pc' = "idle"
                   /\ ustatus' = "crashed"
                   /\ UNCHANGED <<uk, undo_records, uerrors>>
              ELSE /\ uk' = uk + 1
                   /\ undo_records' =
                          IF r.ok
                          THEN Append(undo_records,
                                   [undone_source |-> call.source,
                                    undone_destination |-> call.destination])
                          ELSE undo_records
                   /\ uerrors' = IF r.ok THEN uerrors ELSE uerrors + 1
                   /\ UNCHANGED <<pc, ustatus>>
    /\ faults' = IF fault = "none" THEN faults ELSE faults + 1
    /\ UNCHANGED <<undo_dry, undo_doc, undo_no, prev, fsAtUndo, tampered>>
    /\ UNCHANGED runVars

\* A variant of undo's end that raises SystemExit(1) before it writes.
UndoFinish_raise_first ==
    /\ pc = "undo" /\ uk > Len(UndoCalls(doc.operations))
    /\ undo_doc' = IF undo_dry \/ uerrors > 0 THEN NoUndoDocument
                   ELSE _write_undo_manifest(doc, undo_records, uerrors)
    /\ ustatus' = IF uerrors > 0 THEN "exit1" ELSE "ok"
    /\ pc' = "idle"
    /\ UNCHANGED <<fs, dirs, faults, tampered, undo_dry, uk,
                   undo_records, uerrors, undo_no, prev, fsAtUndo, undoLog,
                   lastStep>>
    /\ UNCHANGED runVars

\* undo() after its loops: write the undo-result document, set the status.
UndoFinish ==
    /\ pc = "undo" /\ uk > Len(UndoCalls(doc.operations))
    /\ undo_doc' = IF undo_dry THEN NoUndoDocument
                   ELSE _write_undo_manifest(doc, undo_records, uerrors)
    /\ ustatus' = IF uerrors > 0 THEN "exit1" ELSE "ok"
    /\ pc' = "idle"
    /\ UNCHANGED <<fs, dirs, faults, tampered, undo_dry, uk,
                   undo_records, uerrors, undo_no, prev, fsAtUndo, undoLog,
                   lastStep>>
    /\ UNCHANGED runVars

\* The exit status of the undo command: 0 when undo returns; 1 on
\* SystemExit(1), on SystemExit with a message (_load_manifest) and on an
\* exception that escapes.
UndoExitStatus(status) == IF status = "ok" THEN 0 ELSE 1

\* A variant of _cmd_run's last line that always exits with 0.
RunExitStatus_zero(res) == 0

\* _cmd_run: raise SystemExit(1 if result.errors > 0 else 0)
RunExitStatus(res) == IF res.errors > 0 THEN 1 ELSE 0

(***************************************************************************)
(* The runs of the model.                                                  *)
(***************************************************************************)
Content(id, size) == [id |-> id, size |-> size]

Dated(path, size) == FileRecord(path, size, "2024", "01")

Undated(path, size) == FileRecord(path, size, None, None)

\* The sidecar lists of MediaA: none, one, or two sidecars.
SidecarLists == {<<>>, <<SidecarXmp>>, <<SidecarXmp, SidecarAae>>}

SeqRange(s) == {s[i] : i \in 1..Len(s)}

EmptyResult ==
    [files_scanned |-> 0, files_stored |-> 0, files_discarded |-> 0,
     files_skipped |-> 0, files_no_date |-> 0, errors |-> 0]

\* Pipeline.run, phases 3 and 4 and the attaching of the sidecars: the
\* action list for the enriched records of the scanned media files.
PlanActions(cfg, strategy, f, file_records, sidecar_map, unreadable) ==
    LET dest_index == build_index(strategy, f, cfg.destination, unreadable)
        match_results ==
            match_all(strategy, f, file_records, dest_index, unreadable)
        planned == resolve(cfg, match_results)
    IN  [i \in 1..Len(planned) |->
            [planned[i] EXCEPT !.sidecars = sidecar_map[planned[i].source.path]]]

\* The files before the run: MediaA with its sidecars in the source tree
\* and MediaB in the archive, each present or not, MediaB with the bytes
\* of MediaA or with its own.  MediaB is scanned too when the source tree
\* contains the archive, and then it may have a sidecar, SidecarB, beside
\* it.  The scan order, the dates exiftool reports and
\* the files that cannot be read while matching are inputs.  The
\* directories are those of the files and the source root; unless the run
\* is a dry-run, _validate_run_args has created the destination and
\* discard roots.
Init ==
    \E hasA \in BOOLEAN, hasB \in BOOLEAN, overlap \in BOOLEAN,
       scs \in SidecarLists, sizeB \in 1..MaxSize, sameBytes \in BOOLEAN,
       mode \in {"copy", "move"}, dry \in BOOLEAN,
       strategy \in {"filename-size", "content-hash"},
       datedA \in BOOLEAN, datedB \in BOOLEAN, bFirst \in BOOLEAN,
       unreadable \in SUBSET {MediaA, MediaB}, hasBsc \in BOOLEAN :
       LET cfg == [source |-> IF overlap THEN CommonRoot ELSE SourceRoot,
                   destination |-> DestinationRoot,
                   discard |-> DiscardRoot, mode |-> mode, dry_run |-> dry]
           scanB == hasB /\ overlap
           present == (IF hasA THEN {MediaA} \cup SeqRange(scs) ELSE {})
                      \cup (IF hasB THEN {MediaB} ELSE {})
                      \cup (IF hasBsc THEN {SidecarB} ELSE {})
           files == [p \in present |->
                        IF p = MediaB
                        THEN Content(IF sameBytes THEN "A" ELSE "B", sizeB)
                        ELSE IF p = MediaA THEN Content("A", 1)
                        ELSE IF p = SidecarXmp THEN Content("A.xmp", 1)
                        ELSE IF p = SidecarB THEN Content("B.xmp", 1)
                        ELSE Content("A.aae", 1)]
           recA == IF datedA THEN Dated(MediaA, 1) ELSE Undated(MediaA, 1)
           recB == IF datedB THEN Dated(MediaB, sizeB)
                   ELSE Undated(MediaB, sizeB)
           listA == IF hasA THEN <<recA>> ELSE <<>>
           listB == IF scanB THEN <<recB>> ELSE <<>>
           sidecar_map ==
               [p \in {MediaA, MediaB} |->
                   IF p = MediaA
                   THEN [i \in 1..Len(scs) |->
                            FileRecord(scs[i], 1, None, None)]
                   ELSE IF hasBsc
                   THEN <<FileRecord(SidecarB, 1, None, None)>>
                   ELSE <<>>]
       IN  /\ hasA \/ scs = <<>>
           /\ scanB \/ ~hasBsc
           /\ hasB \/ (sizeB = 1 /\ ~sameBytes)
           /\ sameBytes => sizeB = 1
           /\ hasA \/ ~datedA
           /\ scanB \/ ~datedB
           /\ (hasA /\ scanB) \/ ~bFirst
           /\ hasB \/ ~overlap
           /\ unreadable \subseteq present
           /\ fs = files
           /\ dirs = UNION {Ancestors(p.dir) : p \in present}
                     \cup Ancestors(cfg.source)
                     \cup (IF dry THEN {}
                           ELSE Ancestors(cfg.destination)
                                \cup Ancestors(cfg.discard))
           /\ config = cfg
           /\ actions = PlanActions(
                            cfg, strategy, files,
                            IF bFirst THEN listB \o listA ELSE listA \o listB,
                            sidecar_map, unreadable)
           /\ result = [EmptyResult EXCEPT
                           !.files_scanned = Len(listA) + Len(listB)]
    /\ fs0 = fs
    /\ pc = "execute"
    /\ ai = 1
    /\ sc_i = 0
    /\ dest = TooManyDuplicates
    /\ sidecar_records = <<>>
    /\ operations = <<>>
    /\ doc = NoDocument
    /\ faults = 0
    /\ tampered = FALSE
    /\ raisedAt = <<>>
    /\ transferLog = <<>>
    /\ visited = <<>>
    /\ undo_dry = FALSE
    /\ uk = 1
    /\ undo_records = <<>>
    /\ uerrors = 0
    /\ ustatus = "none"
    /\ undo_doc = NoUndoDocument
    /\ undo_no = 0
    /\ prev = [status |-> "none", errors |-> 0, dry |-> FALSE]
    /\ fsAtUndo = [fs |-> fs, dirs |-> dirs]
    /\ undoLog = <<>>
    /\ lastStep = "none"

Next ==
    \/ ExecuteSkip
    \/ \E fault \in {"none"} \cup TransferFaults : ExecutePrimary(fault)
    \/ \E fault \in {"none"} \cup TransferFaults : ExecuteSidecar(fault)
    \/ ExecuteRecord
    \/ Finalize
    \/ TamperFile
    \/ FileAppears
    \/ DamageManifest
    \/ \E dry \in BOOLEAN : StartUndo(dry)
    \/ \E fault \in {"none"} \cup UndoFaults : UndoStep(fault)
    \/ UndoFinish

Spec == Init /\ [][Next]_vars

(***************************************************************************)
(* Runs of Mover.execute into a cluttered archive: files named x.jpg,      *)
(* x_001.jpg, ... and x.xmp, x_001.xmp, ... already lie in NoDate, where   *)
(* the undated media files of the source tree and their sidecars go.       *)
(***************************************************************************)
MediaA2 == Join(SourceRoot \o <<"sub">>, Name("x", "jpg"))

NoDateDir == DestinationRoot \o <<"NoDate">>

\* A file of NoDate that carries counter i (0: none) after its stem.
Cluttering(i, ext) ==
    IF i = 0 THEN Join(NoDateDir, Name("x", ext))
    ELSE WithCounter(Join(NoDateDir, Name("x", ext)), i)

InitCluttered ==
    \E taken \in SUBSET (0..DupLimit), takenXmp \in 0..(DupLimit + 1),
       hasA2 \in BOOLEAN, sizeA2 \in 1..MaxSize,
       scs \in {<<>>, <<SidecarXmp>>},
       mode \in {"copy", "move"}, dry \in BOOLEAN,
       strategy \in {"filename-size", "content-hash"},
       datedA \in BOOLEAN :
       LET cfg == [source |-> SourceRoot, destination |-> DestinationRoot,
                   discard |-> DiscardRoot, mode |-> mode, dry_run |-> dry]
           clutter == {Cluttering(i, "jpg") : i \in taken}
                      \cup {Cluttering(i, "xmp") : i \in 0..(takenXmp - 1)}
           present == {MediaA} \cup SeqRange(scs) \cup clutter
                      \cup (IF hasA2 THEN {MediaA2} ELSE {})
           files == [p \in present |->
                        IF p \in clutter THEN Content("K", MaxSize)
                        ELSE IF p = MediaA THEN Content("A", 1)
                        ELSE IF p = MediaA2 THEN Content("A2", sizeA2)
                        ELSE Content("A.xmp", 1)]
           recA == IF datedA THEN Dated(MediaA, 1) ELSE Undated(MediaA, 1)
           listA2 == IF hasA2 THEN <<Undated(MediaA2, sizeA2)>> ELSE <<>>
           sidecar_map ==
               [p \in {MediaA, MediaA2} |->
                   IF p = MediaA
                   THEN [i \in 1..Len(scs) |->
                            FileRecord(scs[i], 1, None, None)]
                   ELSE <<>>]
       IN  /\ hasA2 \/ sizeA2 = 1
           /\ fs = files
           /\ dirs = UNION {Ancestors(p.dir) : p \in present}
                     \cup Ancestors(cfg.source)
                     \cup (IF dry THEN {}
                           ELSE Ancestors(cfg.destination)
                                \cup Ancestors(cfg.discard))
           /\ config = cfg
           /\ actions = PlanActions(cfg, strategy, files, <<recA>> \o listA2,
                                    sidecar_map, {})
           /\ result = [EmptyResult EXCEPT !.files_scanned = 1 + Len(listA2)]
    /\ fs0 = fs
    /\ pc = "execute"
    /\ ai = 1
    /\ sc_i = 0
    /\ dest = TooManyDuplicates
    /\ sidecar_records = <<>>
    /\ operations = <<>>
    /\ doc = NoDocument
    /\ faults = 0
    /\ tampered = FALSE
    /\ raisedAt = <<>>
    /\ transferLog = <<>>
    /\ visited = <<>>
    /\ undo_dry = FALSE
    /\ uk = 1
    /\ undo_records = <<>>
    /\ uerrors = 0
    /\ ustatus = "none"
    /\ undo_doc = NoUndoDocument
    /\ undo_no = 0
    /\ prev = [status |-> "none", errors |-> 0, dry |-> FALSE]
    /\ fsAtUndo = [fs |-> fs, dirs |-> dirs]
    /\ undoLog = <<>>
    /\ lastStep = "none"

NextMover ==
    \/ \E fault \in {"none"} \cup TransferFaults : ExecutePrimary(fault)
    \/ \E fault \in {"none"} \cup TransferFaults : ExecuteSidecar(fault)
    \/ ExecuteRecord
    \/ Finalize

SpecMover == InitCluttered /\ [][NextMover]_vars

(***************************************************************************)
(* Properties.                                                             *)
(***************************************************************************)
\* Mover.execute has returned.
ExecuteReturned == pc # "execute" \/ ai > Len(actions)

\* The (source, destination) pairs the operation records list, primaries
\* and sidecars.
PairsOf(op) ==
    {[source |-> op.source, destination |-> op.destination]}
    \cup {[source |-> op.sidecars[i].source,
           destination |-> op.sidecars[i].destination] :
             i \in 1..Len(op.sidecars)}

RecordedPairs(ops) == UNION {PairsOf(ops[i]) : i \in 1..Len(ops)}

\* C1: in a non-dry-run, once Mover.execute has returned, every file the
\* run copied or moved to a new location is listed, with that location, in
\* some OperationRecord of the manifest.
C1_EveryTransferRecorded ==
    (ExecuteReturned /\ ~config.dry_run) =>
        \A i \in 1..Len(transferLog) :
            transferLog[i] \in RecordedPairs(operations)

\* The first undo of the run's manifest has run to its end, for real, on
\* files nobody changed since an error-free real run.
RoundTrip(mode) ==
    /\ config.mode = mode /\ ~config.dry_run
    /\ result.errors = 0
    /\ ~tampered
    /\ undo_no = 1 /\ ~undo_dry
    /\ pc = "idle" /\ ustatus \in {"ok", "exit1"}

SourcesRestored ==
    \A r \in RecordedPairs(operations) :
        Exists(fs, r.source) /\ fs[r.source] = fs0[r.source]

\* C2 as stated: after a move-mode round trip every transferred file is
\* back at its recorded source path with its original content, no file is
\* at any recorded destination, and the files are those before the run.
C2_MoveRoundTripAsStated ==
    RoundTrip("move") =>
        /\ ustatus = "ok"
        /\ SourcesRestored
        /\ \A r \in RecordedPairs(operations) : ~Exists(fs, r.destination)
        /\ fs = fs0

\* C2 as amended: after a move-mode round trip every transferred file is
\* back at its recorded source path with its original content, the files
\* are exactly those before the run, and a recorded destination holds a
\* file only where it is also the recorded source path of another
\* transfer, whose original is back there.
C2_MoveRoundTrip ==
    RoundTrip("move") =>
        /\ ustatus = "ok"
        /\ SourcesRestored
        /\ \A r \in RecordedPairs(operations) :
              Exists(fs, r.destination) =>
                  /\ \E q \in RecordedPairs(operations) :
                        q.source = r.destination
                  /\ fs[r.destination] = fs0[r.destination]
        /\ fs = fs0

\* A move-mode round trip of two transfers where a recorded destination is
\* also a recorded source path.
C2_Witness ==
    /\ RoundTrip("move")
    /\ Len(operations) = 2
    /\ \E r \in RecordedPairs(operations) : Exists(fs, r.destination)

\* C3: after a copy-mode round trip no file is left at any recorded
\* destination, and every file that existed before the run, the sources
\* included, is present with its content unchanged.
C3_CopyRoundTrip ==
    RoundTrip("copy") =>
        /\ ustatus = "ok"
        /\ \A r \in RecordedPairs(operations) : ~Exists(fs, r.destination)
        /\ \A p \in DOMAIN fs0 : Exists(fs, p) /\ fs[p] = fs0[p]

\* A copy-mode round trip of a store with sidecars and a discard.
C3_Witness ==
    /\ RoundTrip("copy")
    /\ Len(operations) = 2
    /\ \E i \in 1..2 : Len(operations[i].sidecars) = 2
    /\ \E i \in 1..2 : operations[i].action = "discard_source"

\* C4: a second undo of the same manifest, after a first real undo that
\* reported no errors, reports no errors and changes no file.
C4_UndoIdempotent ==
    (undo_no >= 2 /\ prev.status = "ok" /\ ~prev.dry) =>
        /\ uerrors = 0
        /\ ustatus # "crashed"
        /\ fs = fsAtUndo.fs

\* C5: when undo has run to its end, the sequence of its per-file steps is
\* the exact reverse of the sequence of transfers the run performed.
C5_UndoMirrorsTransfers ==
    (undo_no = 1 /\ pc = "idle" /\ ustatus \in {"ok", "exit1"}) =>
        undoLog = Reverse(transferLog)

\* C6: undo removes neither the destination root nor any ancestor of it.
C6_DestinationRootKept ==
    undo_no >= 1 =>
        \A d \in Ancestors(config.destination) :
            d \in fsAtUndo.dirs => d \in dirs

\* The call undo is about to make meets a file of another size than the
\* record's source_size.
SizeMismatchAhead ==
    /\ pc = "undo" /\ uk <= Len(UndoCalls(doc.operations))
    /\ LET call == UndoCalls(doc.operations)[uk]
       IN  /\ call.source_size # NoSize
           /\ Exists(fs, call.destination)
           /\ fs[call.destination].size # call.source_size

\* C7: when the file at a record's destination has another size than the
\* record's source_size, undo changes no file and no directory, counts
\* exactly one error, records nothing as undone, and goes on with the next
\* call.
C7_SizeMismatchRefused ==
    [][SizeMismatchAhead =>
          /\ fs' = fs /\ dirs' = dirs
          /\ uerrors' = uerrors + 1
          /\ undo_records' = undo_records
          /\ uk' = uk + 1 /\ pc' = "undo"]_vars

\* undo has just refused a file for its size and has calls left to make.
C7_Witness ==
    /\ lastStep = "mismatch"
    /\ pc = "undo" /\ uk <= Len(UndoCalls(doc.operations))
    /\ uerrors = 1

\* C8: when the deletion or the move back of one file raises, undo counts
\* one error for it and is not aborted.
C8_UndoSurvivesException ==
    lastStep = "raised" => (ustatus # "crashed" /\ uerrors >= 1)

\* The manifest is missing, unparseable, or lacks schema_version,
\* operations or config.mode.
InvalidManifest(d) ==
    \/ ~d.exists
    \/ ~d.parses
    \/ ManifestKeys \ d.keys # {}
    \/ ~d.config_mode

\* C9: for an invalid manifest undo ends with a configuration error, and
\* has made no _undo_one call and changed no file and no directory.
C9_ValidatesBeforeActing ==
    (undo_no >= 1 /\ InvalidManifest(doc)) =>
        /\ pc = "idle" /\ ustatus = "config_error"
        /\ undoLog = <<>>
        /\ fs = fsAtUndo.fs /\ dirs = fsAtUndo.dirs
        /\ undo_doc = NoUndoDocument

\* undo was asked to undo, for real, an invalid manifest that lists a file
\* present at its recorded destination.
C9_Witness ==
    /\ undo_no >= 1 /\ InvalidManifest(doc) /\ ~undo_dry
    /\ doc.operations # <<>>
    /\ Exists(fs, doc.operations[1].destination)
    /\ ustatus = "config_error"

\* The next step of Mover.execute's loop.
ExecuteStep ==
    \/ ExecuteSkip
    \/ \E fault \in {"none"} \cup TransferFaults : ExecutePrimary(fault)
    \/ \E fault \in {"none"} \cup TransferFaults : ExecuteSidecar(fault)
    \/ ExecuteRecord

\* C10: execute enters the actions one by one in list order, whatever
\* raised before; each action that raised added exactly one to the error
\* counter; the loop can always go on until every action was entered.
C10_BestEffortBatch ==
    /\ visited = [i \in 1..Len(visited) |-> i]
    /\ Len(visited) \in {ai - 1, ai}
    /\ ExecuteReturned => Len(visited) = Len(actions)
    /\ result.errors = Len(raisedAt)
    /\ \A i, j \in 1..Len(raisedAt) : i < j => raisedAt[i] < raisedAt[j]
    /\ InExecute => ENABLED ExecuteStep

\* execute has returned from a list of two actions of which the first
\* raised and the second was transferred and recorded.
C10_Witness ==
    /\ ExecuteReturned
    /\ Len(actions) = 2
    /\ raisedAt = <<1>>
    /\ result.errors = 1
    /\ visited = <<1, 2>>
    /\ Len(operations) = 1 /\ operations[1].source = actions[2].source.path

\* The name resolution execute is about to make finds every candidate
\* name taken.
ExhaustionAhead ==
    /\ InExecute
    /\ actions[ai].action # "skip"
    /\ IF sc_i = 0
       THEN resolve_duplicate_name(fs, actions[ai].destination_path)
                = TooManyDuplicates
       ELSE /\ sc_i <= Len(actions[ai].sidecars)
            /\ resolve_duplicate_name(
                   fs, Join(SidecarDir(config, actions[ai], dest),
                            actions[ai].sidecars[sc_i].path.name))
                   = TooManyDuplicates

\* C11: when name resolution runs out of its attempts, the run stops: it
\* leaves execute's loop, and counts no per-file error for the action.
C11_ExhaustionIsFatal ==
    [][ExhaustionAhead =>
          /\ pc' # "execute"
          /\ result'.errors = result.errors]_vars

\* The paths name resolution is asked about: the NoDate targets of the
\* media file and of its sidecar, a target that carries a counter already,
\* and the discard target.
ResolveTargets ==
    {Cluttering(0, "jpg"), Cluttering(0, "xmp"), Cluttering(1, "jpg"),
     Join(DiscardRoot, Name("x", "jpg"))}

\* N written with three digits, for N below 1000.
ZeroPadded3(N) == <<N \div 100, (N \div 10) % 10, N % 10>>

\* stem_NNN with the directory and the extension of the target.
Numbered(target, N) ==
    [dir |-> target.dir,
     name |-> [base |-> target.name.base,
               ctr |-> target.name.ctr \o <<ZeroPadded3(N)>>,
               ext |-> target.name.ext]]

\* C12: on every filesystem of a run, resolve_duplicate_name returns the
\* target itself when nothing exists there; otherwise, when some counter
\* is free, stem_NNN in the same directory with the same extension for the
\* smallest N >= 1 whose name is free, N zero-padded to 3 digits.  The
\* path returned does not exist.
C12_ResolveDuplicateName ==
    \A target \in ResolveTargets :
        LET r == resolve_duplicate_name(fs, target)
        IN  /\ ~Exists(fs, target) => r = target
            /\ (Exists(fs, target) /\ r # TooManyDuplicates) =>
                  \E N \in 1..DupLimit :
                      /\ r = Numbered(target, N)
                      /\ \A b \in 1..(N - 1) : Exists(fs, Numbered(target, b))
            /\ (Exists(fs, target)
                  /\ \E N \in 1..DupLimit : ~Exists(fs, Numbered(target, N)))
                  => r # TooManyDuplicates
            /\ r # TooManyDuplicates => ~Exists(fs, r)

\* A real run has resolved the name of a media file to the last counter,
\* x_00N.jpg with x.jpg, x_001.jpg ... x_00(N-1).jpg all present, and has
\* transferred the file there.
C12_Witness ==
    /\ InExecute /\ sc_i >= 1 /\ ~config.dry_run
    /\ dest = Numbered(Cluttering(0, "jpg"), DupLimit)
    /\ \A b \in 0..(DupLimit - 1) : Exists(fs0, Cluttering(b, "jpg"))
    /\ ~Exists(fs0, dest) /\ Exists(fs, dest)

\* C13: during and after a dry-run of Mover.execute the files and the
\* directories are those before the run.
C13_DryRunChangesNothing ==
    (config.dry_run /\ pc \in {"execute", "finalized"} /\ ~tampered) =>
        /\ fs = fs0
        /\ dirs = fsAtUndo.dirs

\* A dry-run has returned from a list with a skip and a discard, or from a
\* store with two sidecars, and has counted and recorded them.
C13_Witness ==
    /\ config.dry_run /\ ExecuteReturned /\ pc = "execute"
    /\ \/ /\ result.files_skipped = 1 /\ result.files_discarded = 1
       \/ /\ Len(operations) = 1 /\ Len(operations[1].sidecars) = 2
          /\ result.files_stored = 1

\* The number of actions of the list with the given disposition.
CountOf(acts, disposition) ==
    Cardinality({i \in 1..Len(acts) : acts[i].action = disposition})

\* The counters a run reports when every action of its list goes through.
PlannedCounters(acts, scanned) ==
    [files_scanned |-> scanned,
     files_stored |-> CountOf(acts, "store"),
     files_discarded |-> CountOf(acts, "discard_source"),
     files_skipped |-> CountOf(acts, "skip"),
     files_no_date |-> CountOf(acts, "no_date"),
     errors |-> 0]

C15_TransferSemantics ==
    [][(InExecute /\ ~config.dry_run) =>
          \/ fs' = fs
          \/ \E src \in DOMAIN fs, d \in DOMAIN fs' \ DOMAIN fs :
                fs' = IF config.mode = "move"
                      THEN Put(Remove(fs, src), d, fs[src])
                      ELSE Put(fs, d, fs[src])]_vars

\* A dated media file that lies where the archive files of its month go.
InPlaceDated ==
    Join(DestinationRoot \o <<"2024", "01">>, Name("x", "jpg"))

\* FileRecords for the Resolver: a file of the source tree, an undated and
\* a dated file inside the archive, with year and month each present or
\* not.
ResolverRecords ==
    {FileRecord(p, 1, y, m) :
        p \in {MediaA, MediaB, InPlaceDated},
        y \in {None, "2024"}, m \in {None, "01"}}

\* MatchResults over them: a duplicate of an archive file, or a new file.
MatchResults ==
    {MatchResult(r, IF dup THEN MediaB ELSE NoPath, dup) :
        r \in ResolverRecords, dup \in BOOLEAN}

\* The lists of at most two MatchResults.
MatchLists ==
    {<<>>} \cup {<<a>> : a \in MatchResults}
    \cup {<<a, b>> : a \in MatchResults, b \in MatchResults}

\* The plan has just been made: execute has not entered its first action.
JustPlanned == pc = "execute" /\ ai = 1 /\ sc_i = 0 /\ visited = <<>>

Dispositions == {"store", "discard_source", "skip", "no_date"}

\* C16: resolve returns one FileAction per MatchResult, for the same file
\* and in input order, each with one of the four dispositions; the plan of
\* a run has one action per scanned media file.
C16_OneActionPerMatchResult ==
    JustPlanned =>
        /\ \A mrs \in MatchLists :
              LET out == resolve(config, mrs)
              IN  /\ Len(out) = Len(mrs)
                  /\ \A i \in 1..Len(mrs) :
                        /\ out[i].source = mrs[i].source
                        /\ out[i].action \in Dispositions
        /\ Len(actions) = result.files_scanned
        /\ \A i \in 1..Len(actions) : actions[i].action \in Dispositions

\* A plan of two actions for two scanned files: the discard of the
\* archive file, scanned first, then the NoDate store of the source file.
C16_Witness ==
    /\ JustPlanned
    /\ Len(actions) = 2 /\ result.files_scanned = 2
    /\ actions[1].action = "discard_source"
    /\ actions[1].source.path = MediaB
    /\ actions[2].action = "no_date"
    /\ actions[2].source.path = MediaA

\* The archive path the Resolver computes for a record, stated on its
\* own: destination/year/month/name with both present, else
\* destination/NoDate/name.
ArchiveTarget(cfg, record) ==
    IF record.year = None \/ record.month = None
    THEN Join(cfg.destination \o <<"NoDate">>, record.path.name)
    ELSE Join(cfg.destination \o <<record.year>> \o <<record.month>>,
              record.path.name)

\* C17: a duplicate is always DiscardSource with target discard/name, also
\* when its archive target is its own path; Skip is for non-duplicates
\* only.
C17_DuplicateBeforeSkip ==
    JustPlanned =>
        \A mr \in MatchResults :
            LET fa == resolve(config, <<mr>>)[1]
            IN  /\ mr.is_duplicate =>
                      /\ fa.action = "discard_source"
                      /\ fa.destination_path
                             = Join(config.discard, mr.source.path.name)
                /\ fa.action = "skip" => ~mr.is_duplicate

\* The plan of a run discards a file that lies at its own archive target.
C17_Witness ==
    /\ JustPlanned
    /\ \E i \in 1..Len(actions) :
          /\ actions[i].action = "discard_source"
          /\ ArchiveTarget(config, actions[i].source) = actions[i].source.path
          /\ actions[i].destination_path
                 = Join(config.discard, actions[i].source.path.name)

\* What the disposition may depend on.
ResolverView(cfg, mr) ==
    <<mr.is_duplicate, mr.source.year = None, mr.source.month = None,
      ArchiveTarget(cfg, mr.source) = mr.source.path>>

\* C18: for a non-duplicate the target is the archive path of the record;
\* the action is Skip iff that is the source path, else NoDate iff the
\* year is absent, else Store.  The disposition depends on is_duplicate,
\* the presence of year and month, and the path equality only.
C18_NonDuplicateDisposition ==
    JustPlanned =>
        /\ \A mr \in MatchResults :
              LET fa == resolve(config, <<mr>>)[1]
                  target == ArchiveTarget(config, mr.source)
              IN  ~mr.is_duplicate =>
                      /\ fa.destination_path = target
                      /\ fa.action = "skip" <=> target = mr.source.path
                      /\ fa.action = "no_date" <=>
                             (target # mr.source.path /\ mr.source.year = None)
                      /\ fa.action = "store" <=>
                             (target # mr.source.path /\ mr.source.year # None)
        /\ \A m1 \in MatchResults, m2 \in MatchResults :
              ResolverView(config, m1) = ResolverView(config, m2) =>
                  resolve(config, <<m1>>)[1].action
                      = resolve(config, <<m2>>)[1].action

\* The plan of a run stores a dated file under year/month and skips an
\* undated file that lies in NoDate already.
C18_Witness ==
    /\ JustPlanned
    /\ \E i, j \in 1..Len(actions) :
          /\ actions[i].action = "store"
          /\ actions[i].destination_path.dir
                 = config.destination \o <<"2024", "01">>
          /\ actions[j].action = "skip"
          /\ actions[j].destination_path = actions[j].source.path

\* C19: when a non-dry-run appends an OperationRecord, the record names
\* the source path of the action and the size of the source file, and the
\* file that came from each recorded source, primary and sidecars, lies at
\* the recorded destination.
C19_RecordNamesActualPaths ==
    [][(~config.dry_run /\ Len(operations') = Len(operations) + 1) =>
          LET op == operations'[Len(operations')]
          IN  /\ op.source = actions[ai].source.path
              /\ op.source_size = fs0[op.source].size
              /\ Exists(fs', op.destination)
              /\ fs'[op.destination] = fs0[op.source]
              /\ Len(op.sidecars) = Len(actions[ai].sidecars)
              /\ \A k \in 1..Len(op.sidecars) :
                    /\ op.sidecars[k].source = actions[ai].sidecars[k].path
                    /\ Exists(fs', op.sidecars[k].destination)
                    /\ fs'[op.sidecars[k].destination]
                           = fs0[op.sidecars[k].source]]_vars

\* A non-dry-run has recorded an operation whose primary and whose sidecar
\* both went to a numbered name, not to the planned target.
C19_Witness ==
    /\ ~config.dry_run /\ Len(operations) >= 1
    /\ LET op == operations[1]
       IN  /\ op.destination = Numbered(Cluttering(0, "jpg"), DupLimit)
           /\ Len(op.sidecars) = 1
           /\ op.sidecars[1].destination = Numbered(Cluttering(0, "xmp"), 1)
           /\ Exists(fs, op.destination)
           /\ Exists(fs, op.sidecars[1].destination)

\* C20: a step changes the operation list only by appending one record,
\* for the action execute is at, and then moves on to the next action;
\* finalize writes the list as it is.  So the manifest lists the records
\* in execution order, which is the order of the action list.
C20_OperationsInExecutionOrder ==
    [][/\ \/ operations' = operations
          \/ /\ InExecute
             /\ Len(operations') = Len(operations) + 1
             /\ SubSeq(operations', 1, Len(operations)) = operations
             /\ operations'[Len(operations')].source = actions[ai].source.path
             /\ ai' = ai + 1
       /\ (pc = "execute" /\ pc' = "finalized") =>
              doc'.operations = operations]_vars

\* The manifest of a run of two actions was written with both records, in
\* the order of the action list.
C20_Witness ==
    /\ pc = "finalized" /\ doc.exists
    /\ Len(actions) = 2 /\ Len(doc.operations) = 2
    /\ doc.operations[1].source = actions[1].source.path
    /\ doc.operations[2].source = actions[2].source.path

(***************************************************************************)
(* Runs that match a batch with names in either case against an archive    *)
(* that holds files of the same name, the same size or the same bytes.     *)
(***************************************************************************)
\* x.jpg of the source tree again, in capitals, in a subdirectory.
MediaA3 == Join(SourceRoot \o <<"sub">>, Name("X", "JPG"))

\* A second x.jpg of the archive.
ArchX == Join(DestinationRoot \o <<"2024", "01">>, Name("x", "jpg"))

\* A file of the archive with another name.
ArchY == Join(DestinationRoot \o <<"2024", "01">>, Name("y", "jpg"))

\* The bytes a file may hold: those of MediaA, others of the same length,
\* and two of another length.
Contents ==
    {Content("A", 1), Content("B", 1), Content("C", MaxSize),
     Content("D", MaxSize)}

InitMatch ==
    \E hasA3 \in BOOLEAN, hasB \in BOOLEAN, hasX \in BOOLEAN,
       hasY \in BOOLEAN, cA3 \in Contents, cB \in Contents,
       cX \in Contents, a3First \in BOOLEAN,
       mode \in {"copy", "move"}, dry \in BOOLEAN,
       strategy \in {"filename-size", "content-hash"},
       unreadable \in SUBSET {MediaA3, MediaB} :
       LET cfg == [source |-> SourceRoot, destination |-> DestinationRoot,
                   discard |-> DiscardRoot, mode |-> mode, dry_run |-> dry]
           present == {MediaA}
                      \cup (IF hasA3 THEN {MediaA3} ELSE {})
                      \cup (IF hasB THEN {MediaB} ELSE {})
                      \cup (IF hasX THEN {ArchX} ELSE {})
                      \cup (IF hasY THEN {ArchY} ELSE {})
           files == [p \in present |->
                        IF p = MediaA3 THEN cA3
                        ELSE IF p = MediaB THEN cB
                        ELSE IF p = ArchX THEN cX
                        ELSE Content("A", 1)]
           listA == <<Undated(MediaA, 1)>>
           listA3 == IF hasA3 THEN <<Undated(MediaA3, cA3.size)>> ELSE <<>>
           sidecar_map == [p \in {MediaA, MediaA3} |-> <<>>]
       IN  /\ hasA3 \/ (cA3 = Content("A", 1) /\ ~a3First)
           /\ hasB \/ cB = Content("A", 1)
           /\ hasX \/ cX = Content("A", 1)
           /\ unreadable \subseteq present
           /\ fs = files
           /\ dirs = UNION {Ancestors(p.dir) : p \in present}
                     \cup Ancestors(cfg.source)
                     \cup (IF dry THEN {}
                           ELSE Ancestors(cfg.destination)
                                \cup Ancestors(cfg.discard))
           /\ config = cfg
           /\ actions = PlanActions(
                            cfg, strategy, files,
                            IF a3First THEN listA3 \o listA
                            ELSE listA \o listA3,
                            sidecar_map, unreadable)
           /\ result = [EmptyResult EXCEPT !.files_scanned = 1 + Len(listA3)]
    /\ fs0 = fs
    /\ pc = "execute"
    /\ ai = 1
    /\ sc_i = 0
    /\ dest = TooManyDuplicates
    /\ sidecar_records = <<>>
    /\ operations = <<>>
    /\ doc = NoDocument
    /\ faults = 0
    /\ tampered = FALSE
    /\ raisedAt = <<>>
    /\ transferLog = <<>>
    /\ visited = <<>>
    /\ undo_dry = FALSE
    /\ uk = 1
    /\ undo_records = <<>>
    /\ uerrors = 0
    /\ ustatus = "none"
    /\ undo_doc = NoUndoDocument
    /\ undo_no = 0
    /\ prev = [status |-> "none", errors |-> 0, dry |-> FALSE]
    /\ fsAtUndo = [fs |-> fs, dirs |-> dirs]
    /\ undoLog = <<>>
    /\ lastStep = "none"

\* Mover.execute on the plan, then the manifest.
NextMatch ==
    \/ \E fault \in {"none"} \cup TransferFaults : ExecutePrimary(fault)
    \/ ExecuteRecord
    \/ Finalize

SpecMatch == InitMatch /\ [][NextMatch]_vars

(***************************************************************************)
(* Matching.                                                               *)
(***************************************************************************)
\* The records of the scanned media files of the run.
ScannedRecords == {actions[i].source : i \in 1..Len(actions)}

\* The batches of at most three of them, in any order; a record may come
\* more than once.
Batches ==
    {<<>>} \cup {<<a>> : a \in ScannedRecords}
    \cup {<<a, b>> : a \in ScannedRecords, b \in ScannedRecords}
    \cup {<<a, b, c>> : a \in ScannedRecords, b \in ScannedRecords,
                        c \in ScannedRecords}

\* Same name up to the case of its letters, and same size.
SameNameAndSize(n1, s1, n2, s2) == LowerName(n1) = LowerName(n2) /\ s1 = s2

\* The positions of the walk of the archive with the name and size of r.
WalkHits(walk, r) ==
    {k \in 1..Len(walk) :
        SameNameAndSize(walk[k].path.name, walk[k].size, r.path.name, r.size)}

\* The earlier positions of the batch with the name and size of batch[i].
EarlierHits(batch, i) ==
    {j \in 1..(i - 1) :
        SameNameAndSize(batch[j].path.name, batch[j].size,
                        batch[i].path.name, batch[i].size)}

Least(S) == CHOOSE k \in S : \A l \in S : k <= l

\* C21: under filename-size a source file is a duplicate iff a file of the
\* archive or an earlier file of the batch has its name, up to case, and
\* its size; the matched path is the first one filed under the key: the
\* first such file of the walk, else the earliest such file of the batch.
C21_FilenameSizeMatch ==
    JustPlanned =>
        \A batch \in Batches :
            LET walk == walk_destination(fs, config.destination)
                index == build_index("filename-size", fs,
                                     config.destination, {})
                out == match_all("filename-size", fs, batch, index, {})
            IN  /\ Len(out) = Len(batch)
                /\ \A i \in 1..Len(batch) :
                      LET wh == WalkHits(walk, batch[i])
                          eh == EarlierHits(batch, i)
                      IN  /\ out[i].source = batch[i]
                          /\ out[i].is_duplicate <=> (wh # {} \/ eh # {})
                          /\ out[i].matched_destination =
                                 IF wh # {} THEN walk[Least(wh)].path
                                 ELSE IF eh # {} THEN batch[Least(eh)].path
                                 ELSE NoPath

\* The plan discards X.JPG: the archive holds x.jpg of the same size with
\* other bytes, y.jpg of that size, and no file with the bytes of X.JPG;
\* x.jpg of the source tree has another size than the archive's x.jpg
\* files and is not discarded.
C21_Witness ==
    /\ JustPlanned
    /\ Len(actions) = 2
    /\ actions[1].source.path = MediaA3
    /\ actions[1].action = "discard_source"
    /\ actions[2].source.path = MediaA
    /\ actions[2].action = "no_date"
    /\ MediaB \in DOMAIN fs /\ ArchY \in DOMAIN fs
    /\ fs[MediaB].size = fs[MediaA3].size
    /\ fs[ArchY].size = fs[MediaA].size
    /\ fs[MediaA3].size # fs[MediaA].size
    /\ \A p \in DOMAIN fs : Under(p, DestinationRoot) => fs[p].id # fs[MediaA3].id

\* C22: under filename-size, of the records of a batch whose name and size
\* no file of the archive has, the first with that name and size is new
\* and each later one is a duplicate of it; a record whose name and size
\* a file of the archive has is matched as if it were matched alone.
C22_IntraBatchDedup ==
    JustPlanned =>
        \A batch \in Batches :
            LET walk == walk_destination(fs, config.destination)
                index == build_index("filename-size", fs,
                                     config.destination, {})
                out == match_all("filename-size", fs, batch, index, {})
            IN  \A i \in 1..Len(batch) :
                    IF WalkHits(walk, batch[i]) = {}
                    THEN LET eh == EarlierHits(batch, i)
                         IN  /\ eh = {} => ~out[i].is_duplicate
                             /\ eh # {} =>
                                   /\ out[i].is_duplicate
                                   /\ out[i].matched_destination
                                          = batch[Least(eh)].path
                    ELSE out[i] = match_all("filename-size", fs,
                                            <<batch[i]>>, index, {})[1]

\* The plan keeps x.jpg and discards X.JPG, scanned after it, of the same
\* size and with other bytes; the archive holds x.jpg of another size and
\* no file with the bytes of X.JPG.
C22_Witness ==
    /\ JustPlanned
    /\ Len(actions) = 2
    /\ actions[1].source.path = MediaA
    /\ actions[1].action = "no_date"
    /\ actions[2].source.path = MediaA3
    /\ actions[2].action = "discard_source"
    /\ fs[MediaA3].size = fs[MediaA].size
    /\ fs[MediaA3].id # fs[MediaA].id
    /\ MediaB \in DOMAIN fs /\ fs[MediaB].size # fs[MediaA].size
    /\ \A p \in DOMAIN fs :
          Under(p, DestinationRoot) =>
              /\ fs[p].id # fs[MediaA3].id
              /\ ~SameNameAndSize(p.name, fs[p].size,
                                  MediaA3.name, fs[MediaA3].size)

\* The files sha256_file may fail to read.
Unreadables == SUBSET {MediaA3, MediaB}

\* The files of the archive that hold the bytes of the file at path and
\* can be read.
SameBytesInArchive(path, unreadable) ==
    {p \in DOMAIN fs :
        /\ Under(p, config.destination)
        /\ p \notin unreadable
        /\ fs[p].id = fs[path].id}

\* C23: under content-hash a source file that can be read is a duplicate
\* iff a readable file of the archive holds the same bytes, and then the
\* matched path is such a file; names, sizes and the other records of the
\* batch play no part.
C23_ContentHashMatch ==
    JustPlanned =>
        \A batch \in Batches, unreadable \in Unreadables :
            LET index == build_index("content-hash", fs,
                                     config.destination, unreadable)
                out == match_all("content-hash", fs, batch, index,
                                 unreadable)
            IN  /\ Len(out) = Len(batch)
                /\ \A i \in 1..Len(batch) :
                      batch[i].path \notin unreadable =>
                          LET same == SameBytesInArchive(batch[i].path,
                                                         unreadable)
                          IN  /\ out[i].source = batch[i]
                              /\ out[i].is_duplicate <=> same # {}
                              /\ out[i].is_duplicate =>
                                     out[i].matched_destination \in same
                              /\ ~out[i].is_duplicate =>
                                     out[i].matched_destination = NoPath

\* The plan discards x.jpg, whose bytes y.jpg of the archive holds while
\* no file of the archive has its name and size, and keeps X.JPG, whose
\* name and size x.jpg of the archive has, with other bytes.
C23_Witness ==
    /\ JustPlanned
    /\ Len(actions) = 2
    /\ \E i \in 1..2 :
          /\ actions[i].source.path = MediaA
          /\ actions[i].action = "discard_source"
    /\ \E i \in 1..2 :
          /\ actions[i].source.path = MediaA3
          /\ actions[i].action = "no_date"
    /\ ArchY \in DOMAIN fs /\ fs[ArchY].id = fs[MediaA].id
    /\ \A p \in DOMAIN fs :
          Under(p, DestinationRoot) =>
              ~SameNameAndSize(p.name, fs[p].size,
                               MediaA.name, fs[MediaA].size)
    /\ MediaB \in DOMAIN fs
    /\ fs[MediaB].size = fs[MediaA3].size
    /\ fs[MediaB].id # fs[MediaA3].id

\* The filesystem without the files of a set.
Without(f, ps) == [p \in DOMAIN f \ ps |-> f[p]]

\* C28: under content-hash the index holds no file that cannot be read
\* and every other file of the archive; a record that cannot be read is
\* reported as new; there is one result per record, and the results of the
\* records that can be read are those of the same batch and archive with
\* the unreadable files absent.
C28_UnreadableFiles ==
    JustPlanned =>
        \A batch \in Batches, unreadable \in Unreadables :
            LET index == build_index("content-hash", fs,
                                     config.destination, unreadable)
                out == match_all("content-hash", fs, batch, index,
                                 unreadable)
                readable == {i \in 1..Len(batch) :
                                batch[i].path \notin unreadable}
                others == Without(fs, unreadable)
                expected ==
                    match_all("content-hash", others,
                              SelectSeq(batch,
                                  LAMBDA r : r.path \notin unreadable),
                              build_index("content-hash", others,
                                          config.destination, {}),
                              {})
            IN  /\ {index[k].path : k \in 1..Len(index)}
                       = {p \in DOMAIN fs : Under(p, config.destination)}
                         \ unreadable
                /\ Len(out) = Len(batch)
                /\ \A i \in 1..Len(batch) :
                      i \notin readable =>
                          out[i] = MatchResult(batch[i], NoPath, FALSE)
                /\ SelectSeq(out, LAMBDA m : m.source.path \notin unreadable)
                       = expected

\* A run has ended with its manifest written; it kept X.JPG, whose bytes
\* x.jpg of the archive holds, and discarded x.jpg of the source tree,
\* whose bytes y.jpg of the archive holds.
C28_Witness ==
    /\ doc # NoDocument
    /\ Len(actions) = 2
    /\ \E i \in 1..2 :
          /\ actions[i].source.path = MediaA3
          /\ actions[i].action = "no_date"
    /\ \E i \in 1..2 :
          /\ actions[i].source.path = MediaA
          /\ actions[i].action = "discard_source"
    /\ MediaB \in DOMAIN fs0 /\ MediaA3 \in DOMAIN fs0
    /\ fs0[MediaB].id = fs0[MediaA3].id
    /\ fs0[MediaA3].id # fs0[MediaA].id
    /\ ArchY \in DOMAIN fs0 /\ fs0[ArchY].id = fs0[MediaA].id

(***************************************************************************)
(* undo on the manifest of a dry-run, exit statuses, accounting.           *)
(***************************************************************************)
\* C24: from a valid manifest whose config says dry_run, undo returns at
\* once: no _undo_one call follows, no undo-result document is written,
\* the files and directories are as before and the status is success.
C24_DryRunManifestNoOp ==
    [][(_load_manifest(doc) = "ok" /\ doc.dry_run) =>
           /\ pc' # "undo"
           /\ undo_doc' = NoUndoDocument
           /\ undo_no' # undo_no =>
                 /\ fs' = fs /\ dirs' = dirs
                 /\ pc' = "idle" /\ ustatus' = "ok"
                 /\ undoLog' = <<>>]_vars

\* undo, not as a dry-run, has returned on the manifest of a dry-run that
\* lists operations, while a file lies at a recorded destination.
C24_Witness ==
    /\ undo_no > 0 /\ ~undo_dry /\ pc = "idle"
    /\ _load_manifest(doc) = "ok" /\ doc.dry_run
    /\ doc.operations # <<>>
    /\ \E k \in 1..Len(doc.operations) :
          Exists(fs, doc.operations[k].destination)
    /\ ustatus = "ok"

\* undo has ended: returned, exited or crashed.
UndoEnded == undo_no > 0 /\ pc = "idle"

\* C25 as stated: undo ends with a non-zero status iff some per-file undo
\* failed, a run ends with a non-zero status iff its error counter is
\* positive, and when undo ends with a non-zero status the undo-result
\* document has been written.
C25_ExitStatusAsStated ==
    /\ UndoEnded =>
          /\ UndoExitStatus(ustatus) # 0 <=> uerrors > 0
          /\ UndoExitStatus(ustatus) # 0 => undo_doc # NoUndoDocument
    /\ pc = "finalized" => (RunExitStatus(result) # 0 <=> result.errors > 0)

RECURSIVE FilesListed(_)
FilesListed(ops) ==
    IF ops = <<>> THEN 0
    ELSE 1 + Len(Head(ops).sidecars) + FilesListed(Tail(ops))

\* undo has run through all operations and returned or exited with 1.
UndoCompleted == UndoEnded /\ ustatus \in {"ok", "exit1"}

\* C26: when undo has run to completion on the manifest of a real run that
\* lists operations, _undo_one was called once for each primary file and
\* each sidecar pair, and the entries undone plus the errors are as many
\* as these; the undo-result document, written unless undo was a dry-run,
\* has type "undo", the run id and the path of the manifest, the entries
\* undone and the error count.
C26_UndoAccountsForEveryFile ==
    (UndoCompleted /\ ~doc.dry_run /\ doc.operations # <<>>) =>
        /\ Len(undo_records) + uerrors = FilesListed(doc.operations)
        /\ Len(undoLog) = FilesListed(doc.operations)
        /\ \A i \in 1..Len(undoLog) :
              undoLog[i] \in RecordedPairs(doc.operations)
        /\ \A i \in 1..Len(undo_records) :
              [source |-> undo_records[i].undone_source,
               destination |-> undo_records[i].undone_destination]
                  \in RecordedPairs(doc.operations)
        /\ ~undo_dry =>
              /\ undo_doc.type = "undo"
              /\ undo_doc.original_run_id = doc.run_id
              /\ undo_doc.original_manifest = ManifestPath
              /\ undo_doc.operations_undone = undo_records
              /\ undo_doc.errors = uerrors

\* undo has completed on a manifest that lists a primary file with a
\* sidecar: one file was undone, the other counted as an error, and the
\* document is written.
C26_Witness ==
    /\ UndoCompleted /\ ~undo_dry /\ ~doc.dry_run
    /\ \E k \in 1..Len(doc.operations) : doc.operations[k].sidecars # <<>>
    /\ Len(undo_records) > 0 /\ uerrors > 0
    /\ undo_doc.type = "undo"
    /\ Len(undo_doc.operations_undone) + undo_doc.errors
           = FilesListed(doc.operations)

(***************************************************************************)
(* Sidecars.                                                               *)
(***************************************************************************)
\* The paths of the sidecars attached to the actions of the plan.
AttachedSidecars ==
    UNION {{actions[i].sidecars[k].path : k \in 1..Len(actions[i].sidecars)} :
              i \in 1..Len(actions)}

DispositionCounters(res) ==
    <<res.files_scanned, res.files_stored, res.files_discarded,
      res.files_skipped, res.files_no_date>>

\* The step is one turn of _execute_one's loop over the sidecars.
SidecarStep == InExecute /\ sc_i >= 1 /\ sc_i <= Len(actions[ai].sidecars)

\* The step is _execute_one on a SKIP action.
SkipStep == InExecute /\ sc_i = 0 /\ actions[ai].action = "skip"

\* C27: no record has a sidecar as its source; a sidecar's turn changes no
\* disposition counter, comes after the transfer of its primary to dest,
\* and transfers the sidecar, if anything, to the discard root for a
\* DiscardSource action and else to the directory of dest; the record of
\* an action lists its sidecars in order, each with such a destination; a
\* SKIP action transfers nothing and records nothing, sidecars or not.
C27_SidecarsFollowPrimary ==
    [][/\ \A k \in 1..Len(operations') :
             operations'[k].source \notin AttachedSidecars
       /\ SidecarStep =>
             LET fa == actions[ai]
                 dir == IF fa.action = "discard_source" THEN config.discard
                        ELSE dest.dir
             IN  /\ fa.action # "skip"
                 /\ DispositionCounters(result')
                        = DispositionCounters(result)
                 /\ operations' = operations
                 /\ ~config.dry_run =>
                       /\ transferLog # <<>>
                       /\ \E k \in 1..Len(transferLog) :
                             transferLog[k]
                                 = [source |-> fa.source.path,
                                    destination |-> dest]
                 /\ transferLog' # transferLog =>
                       /\ transferLog'
                              = Append(transferLog,
                                       transferLog'[Len(transferLog')])
                       /\ transferLog'[Len(transferLog')].source
                              = fa.sidecars[sc_i].path
                       /\ transferLog'[Len(transferLog')].destination.dir
                              = dir
       /\ Len(operations') > Len(operations) =>
             LET fa == actions[ai]
                 op == operations'[Len(operations')]
             IN  /\ Len(op.sidecars) = Len(fa.sidecars)
                 /\ \A k \in 1..Len(fa.sidecars) :
                       /\ op.sidecars[k].source = fa.sidecars[k].path
                       /\ op.sidecars[k].destination.dir
                              = IF fa.action = "discard_source"
                                THEN config.discard
                                ELSE op.destination.dir
       /\ SkipStep =>
             /\ fs' = fs /\ dirs' = dirs
             /\ transferLog' = transferLog
             /\ operations' = operations
             /\ sidecar_records' = <<>>
             /\ ai' = ai + 1 /\ sc_i' = 0]_vars

\* A real run has skipped the archive file although a sidecar is attached
\* to it, and has transferred a source file and then its sidecar into the
\* directory of the file's final destination; the sidecar lies where the
\* run found it.
C27_Witness ==
    /\ pc = "finalized" /\ ~config.dry_run
    /\ \E i \in 1..Len(actions) :
          /\ actions[i].action = "skip"
          /\ actions[i].sidecars # <<>>
          /\ Exists(fs, actions[i].sidecars[1].path)
    /\ result.files_skipped = 1
    /\ Len(operations) = 1
    /\ operations[1].sidecars # <<>>
    /\ operations[1].sidecars[1].destination.dir = operations[1].destination.dir
    /\ Len(transferLog) = 1 + Len(operations[1].sidecars)
    /\ transferLog[1].source = operations[1].source

(***************************************************************************)
(* Counters and records.                                                   *)
(***************************************************************************)
\* The actions execute has gone through without an exception and that are
\* no SKIP.
Completed ==
    {i \in 1..Len(actions) :
        /\ i < ai
        /\ actions[i].action # "skip"
        /\ \A k \in 1..Len(raisedAt) : raisedAt[k] # i}

\* C29: the counters files_stored, files_no_date and files_discarded are
\* the numbers of records with action store, no_date and discard_source,
\* during execute and after it, in the manifest as well; the records are
\* those of the actions that went through, one each, so that skipped and
\* failed actions have none.
C29_CountersFromRecords ==
    /\ result.files_stored = CountOf(operations, "store")
    /\ result.files_no_date = CountOf(operations, "no_date")
    /\ result.files_discarded = CountOf(operations, "discard_source")
    /\ ExecuteReturned =>
          /\ Len(operations) = Cardinality(Completed)
          /\ {operations[k].source : k \in 1..Len(operations)}
                 = {actions[i].source.path : i \in Completed}
          /\ Len(operations) + result.files_skipped + result.errors
                 = Len(actions)
    /\ (pc = "finalized" /\ doc.exists) =>
          /\ doc.summary.files_stored = CountOf(doc.operations, "store")
          /\ doc.summary.files_no_date = CountOf(doc.operations, "no_date")
          /\ doc.summary.files_discarded
                 = CountOf(doc.operations, "discard_source")

\* A run of two actions has ended: one raised and has no record, the other
\* is recorded and counted.
C29_Witness ==
    /\ pc = "finalized" /\ doc.exists
    /\ Len(actions) = 2
    /\ result.errors = 1
    /\ Len(operations) = 1
    /\ result.files_stored + result.files_no_date + result.files_discarded = 1
    /\ result.files_skipped = 0

(***************************************************************************)
(* undo as a dry-run.                                                      *)
(***************************************************************************)
\* The step belongs to an undo called with dry_run=True: its start, one of
\* its _undo_one calls, or its end.
DryUndoStep ==
    \/ pc = "undo" /\ undo_dry
    \/ undo_no' # undo_no /\ undo_dry'

\* C30: no step of an undo called with dry_run=True changes a file or a
\* directory or writes an undo-result document.
C30_UndoDryRunChangesNothing ==
    [][DryUndoStep =>
           /\ fs' = fs
           /\ dirs' = dirs
           /\ undo_doc' = NoUndoDocument]_vars

\* undo with dry_run=True has gone through the manifest of a real
\* move-mode run whose files lie at the recorded destinations: it reports
\* them as undone, the files and directories are those it found, and
\* there is no undo-result document.
C30_Witness ==
    /\ UndoEnded /\ undo_dry /\ ustatus = "ok"
    /\ ~doc.dry_run /\ doc.mode = "move"
    /\ Len(undo_records) = FilesListed(doc.operations)
    /\ Len(undo_records) >= 2
    /\ \A i \in 1..Len(undo_records) :
          Exists(fs, undo_records[i].undone_destination)
    /\ fs = fsAtUndo.fs /\ dirs = fsAtUndo.dirs
    /\ undo_doc = NoUndoDocument

(***************************************************************************)
(* What a run keeps and what it overwrites.                                *)
(***************************************************************************)
\* Two files of the run's start that a strategy can match: the same
\* bytes, or the same name, up to case, and size.
Matchable(p, q) ==
    \/ fs0[p].id = fs0[q].id
    \/ SameNameAndSize(p.name, fs0[p].size, q.name, fs0[q].size)

\* What is left in the archive of the files the action's source can have
\* been matched against: a file of the snapshot that lies unchanged where
\* it lay, or the archive copy of an earlier file of the batch.
KeptCopies(i) ==
    LET src == actions[i].source.path
    IN  {p \in DOMAIN fs0 :
            /\ Under(p, config.destination)
            /\ Matchable(p, src)
            /\ Exists(fs, p) /\ fs[p] = fs0[p]}
        \cup
        {operations[k].destination : k \in
            {k \in 1..Len(operations) :
                /\ \E j \in 1..(i - 1) :
                      /\ actions[j].source.path = operations[k].source
                      /\ Matchable(operations[k].source, src)
                /\ Under(operations[k].destination, config.destination)
                /\ Exists(fs, operations[k].destination)}}

\* The run has ended and nothing has touched the files since.
RunEnded == pc = "finalized" /\ undo_no = 0 /\ ~tampered

\* C31: at the end of a non-dry-run, for every file the run sent to the
\* discard directory as DiscardSource, the archive still holds a file it
\* can have been matched against.
C31_ArchiveCopyWins ==
    (RunEnded /\ ~config.dry_run) =>
        \A i \in 1..Len(actions) :
            (/\ actions[i].action = "discard_source"
             /\ \E k \in 1..Len(operations) :
                   operations[k].source = actions[i].source.path) =>
                KeptCopies(i) # {}

(***************************************************************************)
(* Disposition and placement.                                              *)
(***************************************************************************)
\* FileRecords whose year and month are each None, empty or set.
DatedRecords ==
    {FileRecord(p, 1, y, m) :
        p \in {MediaA, MediaB, InPlaceDated},
        y \in {None, "", "2024"}, m \in {None, "", "01"}}

\* A directory destination/<year>/<month> of the archive.
IsYearMonthDir(cfg, d) ==
    /\ Len(d) = Len(cfg.destination) + 2
    /\ SubSeq(d, 1, Len(cfg.destination)) = cfg.destination
    /\ d[Len(d) - 1] \in {"2024"}
    /\ d[Len(d)] \in {"01"}

DistinctDestinations(log) ==
    \A k \in 1..Len(log), l \in 1..Len(log) :
        k # l => log[k].destination # log[l].destination

\* C33: in a non-dry-run every step of execute leaves each file it does
\* not move as it is, a transfer writes to a path where no file was, and
\* the transfers of the run have pairwise distinct destinations.
C33_NoTransferOverwrites ==
    [][(InExecute /\ ~config.dry_run) =>
          /\ \A p \in DOMAIN fs \cap DOMAIN fs' : fs'[p] = fs[p]
          /\ \A p \in DOMAIN fs' \ DOMAIN fs :
                \E src \in DOMAIN fs : fs'[p] = fs[src]
          /\ \A p \in DOMAIN fs \ DOMAIN fs' :
                /\ config.mode = "move"
                /\ transferLog' # transferLog
                /\ transferLog'[Len(transferLog')].source = p
          /\ transferLog' # transferLog =>
                /\ ~Exists(fs, transferLog'[Len(transferLog')].destination)
                /\ Exists(fs', transferLog'[Len(transferLog')].destination)
          /\ DistinctDestinations(transferLog')]_vars

\* A real run has ended: x.jpg and sub/x.jpg of the source tree went to
\* NoDate, where x.jpg lay already, under two different names; every file
\* the archive held lies there unchanged.
C33_Witness ==
    /\ pc = "finalized" /\ ~config.dry_run
    /\ Len(operations) = 2
    /\ operations[1].source = MediaA /\ operations[2].source = MediaA2
    /\ operations[1].destination.dir = NoDateDir
    /\ operations[2].destination.dir = NoDateDir
    /\ operations[1].destination # operations[2].destination
    /\ Exists(fs0, Cluttering(0, "jpg"))
    /\ \A p \in DOMAIN fs0 :
          Under(p, DestinationRoot) => Exists(fs, p) /\ fs[p] = fs0[p]
    /\ Exists(fs, operations[1].destination)
    /\ Exists(fs, operations[2].destination)

(***************************************************************************)
(* Resuming an undo.                                                       *)
(***************************************************************************)
\* undo's loops run from a filesystem to their end, no call raising: the
\* filesystem afterwards, the errors counted, and what each call met.
RECURSIVE UndoAll(_, _, _, _)
UndoAll(f, ds, calls, mode) ==
    IF calls = <<>>
    THEN [fs |-> f, dirs |-> ds, errors |-> 0, met |-> <<>>]
    ELSE LET r == _undo_one(f, ds, Head(calls), mode, FALSE, "none")
             rest == UndoAll(r.fs, r.dirs, Tail(calls), mode)
         IN  [fs |-> rest.fs, dirs |-> rest.dirs,
              errors |-> rest.errors + (IF r.ok THEN 0 ELSE 1),
              met |-> <<r.met>> \o rest.met]

\* The first undo of the manifest, for real, stands between two of its
\* per-file steps, none of which failed; nothing else has touched the
\* files since the run.
Interruptible ==
    /\ pc = "undo" /\ undo_no = 1 /\ ~undo_dry
    /\ ~tampered /\ uerrors = 0

\* C34: if undo is interrupted where it stands and run again on the same
\* manifest, the second run counts no error, ends with the files an
\* uninterrupted undo ends with, and finds the files of the steps already
\* made gone from their destinations.
C34_UndoResumable ==
    Interruptible =>
        LET calls == UndoCalls(doc.operations)
            whole == UndoAll(fsAtUndo.fs, fsAtUndo.dirs, calls, doc.mode)
            again == UndoAll(fs, dirs, calls, doc.mode)
        IN  /\ again.errors = 0
            /\ again.fs = whole.fs
            /\ \A k \in 1..(uk - 1) : again.met[k] = "gone"

(***************************************************************************)
(* What undo's move-backs land on.                                         *)
(***************************************************************************)
\* A step of the first undo, for real, of the manifest of a move-mode run
\* that counted no error, the files being as the run left them.
ReplayStep ==
    /\ pc = "undo" /\ undo_no = 1 /\ ~undo_dry
    /\ doc.mode = "move" /\ ~doc.dry_run
    /\ result.errors = 0 /\ ~tampered
    /\ uk' = uk + 1

\* C35: replaying an error-free move-mode run on the files it left, every
\* move-back of undo lands on a recorded source path where no file is at
\* that moment, and the file moved is the one found at the destination.
C35_UndoNeverOverwrites ==
    [][(ReplayStep /\ lastStep' = "move_back") =>
           LET call == UndoCalls(doc.operations)[uk]
           IN  /\ ~Exists(fs, call.source)
               /\ Exists(fs, call.destination)
               /\ Exists(fs', call.source)
               /\ fs'[call.source] = fs[call.destination]
               /\ \A p \in DOMAIN fs :
                      p # call.destination => Exists(fs', p) /\ fs'[p] = fs[p]]_vars

\* undo has replayed, without an error, a move-mode run between
\* overlapping trees in which a later transfer landed on the path an
\* earlier one had vacated; every file is back where the run found it.
C35_Witness ==
    /\ UndoCompleted /\ undo_no = 1 /\ ~undo_dry /\ ustatus = "ok"
    /\ doc.mode = "move" /\ ~doc.dry_run
    /\ result.errors = 0 /\ ~tampered
    /\ \E k \in 1..Len(operations) : \E j \in (k + 1)..Len(operations) :
           operations[j].destination = operations[k].source
    /\ Len(undo_records) = Len(UndoCalls(doc.operations))
    /\ lastStep = "move_back"
    /\ fs = fs0

(***************************************************************************)
(* Every action is counted once.                                           *)
(***************************************************************************)
\* The five counters an action can be counted by.
Outcomes(res) ==
    <<res.files_stored, res.files_discarded, res.files_skipped,
      res.files_no_date, res.errors>>

Accounted(res) ==
    res.files_stored + res.files_discarded + res.files_skipped
        + res.files_no_date + res.errors

\* Exactly one of the five counters is one higher, the others are the same.
OneMore(before, after) ==
    \E c \in 1..5 :
        /\ Outcomes(after)[c] = Outcomes(before)[c] + 1
        /\ \A o \in (1..5) \ {c} : Outcomes(after)[o] = Outcomes(before)[o]

\* C36: while execute runs, the five counters add up to the number of
\* actions it has left behind; once it has returned they add up to the
\* number of actions, which is files_scanned. A step that leaves an action
\* raises exactly one of the counters by one, every other step of execute
\* leaves the five as they are, and nothing after execute changes them.
C36_ExactlyOnceAccounting ==
    /\ [](/\ InExecute => Accounted(result) = ai - 1
          /\ ExecuteReturned =>
                 /\ Accounted(result) = Len(actions)
                 /\ result.files_scanned = Len(actions))
    /\ [][/\ (InExecute /\ ai' = ai + 1) => OneMore(result, result')
          /\ (InExecute /\ ai' = ai) => Outcomes(result') = Outcomes(result)
          /\ ExecuteReturned => Outcomes(result') = Outcomes(result)]_vars

\* A pipeline run over two source files of the same filename has ended:
\* one action raised at its second sidecar, after its primary and its
\* first sidecar were transferred, and is counted as one error; the other
\* is counted by its disposition.
C36_Witness ==
    /\ pc = "finalized" /\ undo_no = 0
    /\ Len(actions) = 2
    /\ actions[1].source.path.name = actions[2].source.path.name
    /\ \E i \in 1..2 :
          /\ raisedAt = <<i>>
          /\ Len(actions[i].sidecars) = 2
          /\ \E k \in 1..Len(transferLog) :
                 transferLog[k].source = actions[i].sidecars[1].path
    /\ result.errors = 1
    /\ Accounted(result) = 2
    /\ result.files_scanned = 2

(***************************************************************************)
(* Files of one batch with the same bytes, under content-hash.             *)
(***************************************************************************)
\* C37: under content-hash, of two files of a batch that hold the same
\* bytes, which no file of the archive holds, the later one is flagged a
\* duplicate.
C37_HashIntraBatchDedup ==
    JustPlanned =>
        \A batch \in Batches :
            LET index == build_index("content-hash", fs,
                                     config.destination, {})
                out == match_all("content-hash", fs, batch, index, {})
            IN  \A i, j \in 1..Len(batch) :
                    (/\ i < j
                     /\ batch[i].path # batch[j].path
                     /\ fs[batch[i].path].id = fs[batch[j].path].id
                     /\ SameBytesInArchive(batch[j].path, {}) = {}) =>
                        out[j].is_duplicate

(***************************************************************************)
(* What a dry-run records and what a real run records.                     *)
(***************************************************************************)
\* _execute_one's loop over fa.sidecars from the k-th on, no transfer
\* meeting a fault: the filesystem afterwards and the sidecar records.
RECURSIVE TransferSidecars(_, _, _, _, _, _)
TransferSidecars(f, ds, cfg, fa, d, k) ==
    IF k > Len(fa.sidecars)
    THEN [fs |-> f, dirs |-> ds, raised |-> FALSE, records |-> <<>>]
    ELSE LET sc == fa.sidecars[k]
             sd == resolve_duplicate_name(
                       f, Join(SidecarDir(cfg, fa, d), sc.path.name))
             t  == _transfer(f, ds, cfg, sc.path, sd, "none")
         IN  IF sd = TooManyDuplicates
             THEN [fs |-> f, dirs |-> ds, raised |-> TRUE, records |-> <<>>]
             ELSE IF t.raised
             THEN [fs |-> t.fs, dirs |-> t.dirs, raised |-> TRUE,
                   records |-> <<>>]
             ELSE LET rest == TransferSidecars(t.fs, t.dirs, cfg, fa, d, k + 1)
                  IN  [rest EXCEPT !.records =
                           <<[source |-> sc.path, destination |-> sd]>> \o @]

\* _execute_one on one action: the filesystem afterwards and the operation
\* records with the action's record appended, if it got that far.
_execute_one(f, ds, cfg, ops, fa) ==
    IF fa.action = "skip"
    THEN [fs |-> f, dirs |-> ds, operations |-> ops]
    ELSE LET d == resolve_duplicate_name(f, fa.destination_path)
             t == _transfer(f, ds, cfg, fa.source.path, d, "none")
             s == TransferSidecars(t.fs, t.dirs, cfg, fa, d, 1)
         IN  IF d = TooManyDuplicates
             THEN [fs |-> f, dirs |-> ds, operations |-> ops]
             ELSE IF t.raised
             THEN [fs |-> t.fs, dirs |-> t.dirs, operations |-> ops]
             ELSE [fs |-> s.fs, dirs |-> s.dirs,
                   operations |-> IF s.raised THEN ops
                                  ELSE _record_operation(ops, fa, d, s.records)]

\* Mover.execute over the actions from the i-th on.
RECURSIVE execute(_, _, _, _, _, _)
execute(f, ds, cfg, ops, acts, i) ==
    IF i > Len(acts)
    THEN [fs |-> f, dirs |-> ds, operations |-> ops]
    ELSE LET r == _execute_one(f, ds, cfg, ops, acts[i])
         IN  execute(r.fs, r.dirs, cfg, r.operations, acts, i + 1)

\* C38: the (source, destination) pairs a finished dry-run has recorded
\* are those a real run of the same actions on the same files records.
C38_DryRunPreviewFidelity ==
    (config.dry_run /\ ExecuteReturned) =>
        RecordedPairs(operations)
            = RecordedPairs(execute(fs0, dirs,
                                    [config EXCEPT !.dry_run = FALSE],
                                    <<>>, actions, 1).operations)

(***************************************************************************)
(* Where a sidecar ends up, next to its primary.                           *)
(***************************************************************************)
\* path.stem.lower(): the name without its extension, a counter included.
Stem(path) == <<Lower(path.name.base), path.name.ctr>>

\* The path is that of a media file.
IsMediaPath(path) == Lower(path.name.ext) = "jpg"

\* C39: in a real run, the recorded destination of every sidecar lies in
\* the directory of its primary's recorded destination and has its stem,
\* case aside, and has the stem of no other media file that was in that
\* directory before the run and still is.
C39_SidecarStaysWithPrimary ==
    (~config.dry_run /\ undo_no = 0 /\ ~tampered) =>
        \A k \in 1..Len(operations) :
            \A s \in 1..Len(operations[k].sidecars) :
                LET pd == operations[k].destination
                    sd == operations[k].sidecars[s].destination
                IN  /\ sd.dir = pd.dir
                    /\ Stem(sd) = Stem(pd)
                    /\ \A p \in DOMAIN fs0 \cap DOMAIN fs :
                           (IsMediaPath(p) /\ p # pd /\ p.dir = sd.dir) =>
                               Stem(p) # Stem(sd)

====
